---- MODULE Spec2Model ----
(***************************************************************************)
(* A model of the self-authenticating client of safe_core                  *)
(* (src/src/core/client/mod.rs): the correlation table `heads`, the        *)
(* immutable-data LRU cache, the request dispatchers, the session-packet   *)
(* update chain and the teardown of the shared `Inner`.                    *)
(*                                                                         *)
(* A future returned by the client is a record                             *)
(*   api    the API call that returned it                                  *)
(*   stage  the verb whose oneshot it is currently waiting on              *)
(*   st     "pending"  the oneshot is empty                                *)
(*          "ready"    the oneshot holds an event (or was cancelled) and   *)
(*                     the future has not been polled since                *)
(*          "done"     the future was polled to completion (`res`)         *)
(*          "dropped"  the caller dropped the future                       *)
(*   ev     the content of the oneshot                                     *)
(*   mid    the MessageId of the request in flight (0: none was sent)      *)
(*   by     the MessageId of the response that completed the oneshot       *)
(*   rc     the future's closures hold a clone of Rc<RefCell<Inner>>       *)
(***************************************************************************)
EXTENDS Integers, Sequences, FiniteSets, TLC

\* ------------------------------------------------------------------ bounds
MaxFut == 2
MaxName == 2
MaxDiscard == 1
MaxHandles == 2
MaxHits == 2
MaxHitName == 2
MaxRefetch == 2

\* ------------------------------------------------------- program constants
IMMUT_DATA_CACHE_SIZE == 300

\* ------------------------------------------------------------------ values
Names == 1..MaxName

Kinds == {"Immutable", "Structured", "PrivAppendable", "PubAppendable"}

\* routing::Data / routing::DataIdentifier, reduced to kind, name and version
Data(k, n, v) == [kind |-> k, name |-> n, ver |-> v]

NoData == Data("Unit", 0, 0)

AccInfo == Data("AccountInfo", 0, 0)

\* Data::Structured, Data::PrivAppendable and Data::PubAppendable carry a
\* version, a payload, the owner keys and the previous owner keys
\* and a signature, of which the model keeps the key that made it
Versioned(k, n, v, payload, owners, prev, sk) ==
    [kind |-> k, name |-> n, ver |-> v, data |-> payload, owners |-> owners, prev |-> prev,
     sig |-> sk]

\* StructuredData::new(tag, name, version, data, owner_keys, prev_owner_keys, sk)
StructuredData(n, v, payload, owners, prev, sk) ==
    Versioned("Structured", n, v, payload, owners, prev, sk)

\* a payload: the bytes a caller supplied; NoBytes is the empty Vec<u8>
Bytes(b) == [bytes |-> b]

NoBytes == Bytes(0)

\* StructuredData::is_deleted: no payload and no owner
is_deleted_never(d) == FALSE

is_deleted(d) == d.data = NoBytes /\ d.owners = {}

\* the u64 a put_recover future resolves with
Version(v) == Data("Version", 0, v)

\* routing::Authority; None is the absent Option<Authority>
Authority(a, n) == [auth |-> a, name |-> n]

None == Authority("None", 0)

\* acc_loc, the address of the session packet
AccLoc == 1

\* cm_addr of a Registered client
CmAddr == Authority("ClientManager", 0)

\* Result<_, CoreError>
Ok(d) == [ok |-> TRUE, val |-> d, e |-> "", reason |-> ""]

Err(e, why) == [ok |-> FALSE, val |-> NoData, e |-> e, reason |-> why]

\* the error a routing send call returns (InterfaceError, converted by From)
SendError == Err("RoutingInterfaceError", "")

\* core::event::CoreEvent; kind "None" is the empty oneshot, "Canceled" a
\* oneshot whose Complete was dropped, "Failed" a futures::failed future
CoreEvent(k, res) == [k |-> k, res |-> res]

NoEvent == CoreEvent("None", Ok(NoData))

Canceled == CoreEvent("Canceled", Ok(NoData))

VARIABLES clientType, account, heads, cache, stats, fut, nextId, sent,
          discarded, handles, alive, removed, useOrder,
          network, boot, hist

\* the client, with the histories kept about it
client == <<clientType, account, heads, cache, stats, fut, nextId, sent,
            discarded, handles, alive, removed, useOrder>>

\* the network's store, the result of the last constructor call, and the
\* history of the session packet updates
netvars == <<network, boot, hist>>

vars == <<client, netvars>>

\* ------------------------------------------------------------- ClientType
\* a cm_addr that does not look at the client type
cm_addr_unchecked(ct) == Ok(CmAddr)

\* ClientType::cm_addr
cm_addr(ct) ==
    IF ct = "Registered" THEN Ok(CmAddr) ELSE Err("OperationForbiddenForClient", "")

\* ClientType::acc_loc
acc_loc(ct) ==
    IF ct = "Registered" THEN Ok(Data("XorName", AccLoc, 0))
    ELSE Err("OperationForbiddenForClient", "")

\* an acc_mut that does not look at the client type
acc_mut_unchecked(ct) == Ok(NoData)

\* ClientType::acc_mut; the account itself is the variable `account`
acc_mut(ct) ==
    IF ct = "Registered" THEN Ok(NoData) ELSE Err("OperationForbiddenForClient", "")

\* ClientType::acc
acc(ct) ==
    IF ct = "Registered" THEN Ok(NoData) ELSE Err("OperationForbiddenForClient", "")

\* Client::user_root_dir_id / Client::config_root_dir_id; 0 is None
user_root_dir_id == IF acc(clientType).ok THEN account.user ELSE 0

config_root_dir_id == IF acc(clientType).ok THEN account.config ELSE 0

\* ------------------------------------------------------------ heads (map)
\* a remove_head that hands out the handle and leaves the entry in the table
remove_head_keep(h, id) == h

\* a remove_head that takes some entry out when the id has none
remove_head_some(h, id) ==
    LET k == IF id \in DOMAIN h \/ DOMAIN h = {} THEN id ELSE CHOOSE i \in DOMAIN h : TRUE
    IN  [i \in DOMAIN h \ {k} |-> h[i]]

\* HashMap::remove on heads
remove_head(h, id) == [i \in DOMAIN h \ {id} |-> h[i]]

\* an insert_head that files the handle under the previously allocated id
insert_head_prev(h, id, r) ==
    LET k == IF id > 1 THEN id - 1 ELSE id
    IN  [i \in DOMAIN h \cup {k} |-> IF i = k THEN r ELSE h[i]]

\* an insert_head that keeps the entry an id already has
insert_head_keep(h, id, r) ==
    IF id \in DOMAIN h THEN h
    ELSE [i \in DOMAIN h \cup {id} |-> IF i = id THEN r ELSE h[i]]

\* HashMap::insert on heads: an existing entry for the key is replaced
insert_head(h, id, r) == [i \in DOMAIN h \cup {id} |-> IF i = id THEN r ELSE h[i]]

EmptyHeads == [i \in {} |-> 0]

\* --------------------------------------------------------------- LRU cache
\* The cache is a sequence of Data, least recently used first.
CacheNames(c) == {c[i].name : i \in 1..Len(c)}

CacheIndex(c, n) == CHOOSE i \in 1..Len(c) : c[i].name = n

Without(c, i) == [j \in 1..(Len(c) - 1) |-> IF j < i THEN c[j] ELSE c[j + 1]]

\* a lookup that does not refresh the entry (peek instead of get_mut)
cache_peek(c, n) == c

\* LruCache::get_mut: a hit makes the entry the most recently used
cache_get_mut(c, n) ==
    IF n \in CacheNames(c)
    THEN Append(Without(c, CacheIndex(c, n)), c[CacheIndex(c, n)])
    ELSE c

\* LruCache::insert: the entry becomes the most recently used; over capacity
\* the least recently used entry is removed
cache_insert(c, d) ==
    LET base == IF d.name \in CacheNames(c) THEN Without(c, CacheIndex(c, d.name)) ELSE c
        full == Append(base, d)
    IN  IF Len(full) > IMMUT_DATA_CACHE_SIZE THEN Tail(full) ELSE full

CacheLookup(c, n) == c[CacheIndex(c, n)]

\* History: the names in the order of their last use, where a use is a cache
\* hit of get or an insertion by the spliced map. It records what the caller
\* did, not what the cache holds.
Touch(u, n) == Append(SelectSeq(u, LAMBDA x : x # n), n)

\* ------------------------------------------------------------------ futures
Future(api, stage, st, ev, mid, rc, arg) ==
    [api |-> api, stage |-> stage, st |-> st, ev |-> ev, res |-> Ok(NoData),
     mid |-> mid, by |-> 0, rc |-> rc, arg |-> arg]

Live(f) == f.st \in {"pending", "ready"}

\* the number of owners of Rc<RefCell<Inner>>: the Client handles and the
\* closures of the futures that captured a clone
RcCount(f, h) == h + Cardinality({r \in 1..Len(f) : f[r].rc /\ Live(f[r])})

\* a teardown that leaks the table: the handles in it are never dropped
DropHeads_leak(f, h) == f

\* Dropping Inner drops `heads`: every Complete still in the table is dropped,
\* so the oneshot of its future is cancelled.
DropHeads(f, h) ==
    [r \in 1..Len(f) |->
        IF f[r].st = "pending" /\ (\E id \in DOMAIN h : h[id] = r)
        THEN [f[r] EXCEPT !.st = "ready", !.ev = Canceled]
        ELSE f[r]]

RemovedAll(rm, h) == [i \in DOMAIN rm |-> IF i \in DOMAIN h THEN rm[i] + 1 ELSE rm[i]]

\* The state after an Rc owner was released: when the last owner is gone Inner
\* is dropped (routing, heads, cache, joiner).
Release(f, h, n) ==
    IF RcCount(f, n) = 0
    THEN /\ alive' = FALSE
         /\ heads' = EmptyHeads
         /\ fut' = DropHeads(f, h)
         /\ removed' = RemovedAll(removed, h)
         /\ handles' = n
    ELSE /\ alive' = alive
         /\ heads' = h
         /\ fut' = f
         /\ removed' = removed
         /\ handles' = n

\* ------------------------------------------------------------ routing send
Verbs == {"get", "put", "post", "delete", "append", "get_account_info"}

\* the event a dispatcher completes its handle with when the send call fails
SendFailEvent(verb) ==
    CASE verb = "get" -> CoreEvent("Get", SendError)
      [] verb = "put" -> CoreEvent("Get", SendError)
      [] verb = "get_account_info" -> CoreEvent("AccountInfo", SendError)
      [] OTHER -> CoreEvent("Mutation", SendError)

\* an id generator that hands out an id it handed out before
NewMessageId_same == IF sent = {} THEN nextId ELSE (CHOOSE c \in sent : TRUE).id

\* MessageId::new(): a fresh id
NewMessageId == nextId

SentCall(id, verb, dst, d, ok) == [id |-> id, verb |-> verb, dst |-> dst, data |-> d, ok |-> ok]

\* a dispatcher that files the handle whatever the send call returned
Dispatch_always(verb, dst, d, ok, r, h) ==
    [heads |-> insert_head(h, NewMessageId, r),
     sent |-> sent \cup {SentCall(NewMessageId, verb, dst, d, ok)},
     mid |-> NewMessageId,
     st |-> IF ok THEN "pending" ELSE "ready",
     ev |-> IF ok THEN NoEvent ELSE SendFailEvent(verb)]

\* The tail of every dispatcher: allocate the id, call routing, and either
\* complete the handle with the send error or insert it into heads.
\* r is the index of the future that owns the oneshot.
Dispatch(verb, dst, d, ok, r, h) ==
    [heads |-> IF ok THEN insert_head(h, NewMessageId, r) ELSE h,
     sent |-> sent \cup {SentCall(NewMessageId, verb, dst, d, ok)},
     mid |-> NewMessageId,
     st |-> IF ok THEN "pending" ELSE "ready",
     ev |-> IF ok THEN NoEvent ELSE SendFailEvent(verb)]

\* `let _ = self.insert_head(msg_id, head)`: the Complete that HashMap::insert
\* hands back, if the id had an entry, is dropped, which cancels its oneshot
Displaced(f, h, id, ok) ==
    IF ok /\ id \in DOMAIN h /\ f[h[id]].st = "pending"
    THEN [f EXCEPT ![h[id]].st = "ready", ![h[id]].ev = Canceled]
    ELSE f

Inserted(rm, id, ok) ==
    IF ok THEN [i \in DOMAIN rm \cup {id} |-> IF i \in DOMAIN rm THEN rm[i] ELSE 0] ELSE rm

NaeManager(n) == Authority("NaeManager", n)

CanCall == alive /\ handles > 0 /\ Len(fut) < MaxFut

\* ------------------------------------------------------------------ Stats
\* Client::issued_gets .. Client::issued_appends
issued_gets == stats.gets

issued_puts == stats.puts

issued_posts == stats.posts

issued_deletes == stats.deletes

issued_appends == stats.appends

\* ------------------------------------------------------------- Client::get
Get(d, opt_dst, ok) ==
    /\ CanCall
    /\ stats' = [stats EXCEPT !.gets = @ + 1]
    /\ IF d.kind = "Immutable" /\ d.name \in CacheNames(cache)
       THEN /\ cache' = cache_get_mut(cache, d.name)
            /\ useOrder' = Touch(useOrder, d.name)
            /\ fut' = Append(fut, Future("get", "get", "ready",
                                         CoreEvent("Get", Ok(CacheLookup(cache, d.name))),
                                         0, FALSE, d))
            /\ UNCHANGED <<heads, sent, nextId, removed>>
       ELSE LET dst == IF opt_dst = None THEN NaeManager(d.name) ELSE opt_dst
                s == Dispatch("get", dst, d, ok, Len(fut) + 1, heads)
            IN  /\ fut' = Append(Displaced(fut, heads, s.mid, ok),
                                 Future("get", "get", s.st, s.ev, s.mid,
                                             d.kind = "Immutable", d))
                /\ heads' = s.heads
                /\ sent' = s.sent
                /\ nextId' = nextId + 1
                /\ removed' = Inserted(removed, s.mid, ok)
                /\ cache' = cache
                /\ useOrder' = useOrder
    /\ UNCHANGED <<clientType, account, discarded, handles, alive>>

\* ------------------------------------------------------------- Client::put
\* api, rc and arg describe the future built around the put: the plain put,
\* or the put that put_recover starts with.
PutAs(api, rc, arg, d, opt_dst, ok) ==
    /\ CanCall
    /\ stats' = [stats EXCEPT !.puts = @ + 1]
    /\ LET dst == IF opt_dst # None THEN Ok(opt_dst) ELSE cm_addr(clientType)
       IN  IF ~dst.ok
           THEN /\ fut' = Append(fut, Future(api, "put", "ready",
                                             CoreEvent("Mutation", dst), 0, rc, arg))
                /\ UNCHANGED <<heads, sent, nextId, removed>>
           ELSE LET s == Dispatch("put", dst.val, d, ok, Len(fut) + 1, heads)
                IN  /\ fut' = Append(Displaced(fut, heads, s.mid, ok),
                                     Future(api, "put", s.st, s.ev, s.mid, rc, arg))
                    /\ heads' = s.heads
                    /\ sent' = s.sent
                    /\ nextId' = nextId + 1
                    /\ removed' = Inserted(removed, s.mid, ok)
    /\ UNCHANGED <<clientType, account, cache, discarded, handles, alive, useOrder>>

Put(d, opt_dst, ok) == PutAs("put", FALSE, d, d, opt_dst, ok)

\* ----------------------------------------------------- Client::put_recover
\* what the closures of put_recover captured: the data, dst, the version the
\* future resolves with, and (once the put has failed) put_err
RecoverArg(d, opt_dst, sign_sk, v, put_err) ==
    [data |-> d, dst |-> opt_dst, sign_sk |-> sign_sk, version |-> v, put_err |-> put_err]

\* Immutable data is put without recovery and the future maps to 0; for the
\* other kinds the or_else closure holds two clones of the client.
PutRecover(d, opt_dst, sign_sk, ok) ==
    IF d.kind = "Immutable"
    THEN PutAs("put_recover", FALSE, RecoverArg(d, opt_dst, sign_sk, 0, Ok(NoData)),
               d, opt_dst, ok)
    ELSE PutAs("put_recover", TRUE, RecoverArg(d, opt_dst, sign_sk, d.ver, Ok(NoData)),
               d, opt_dst, ok)

\* ---------------------------- Client::post, Client::delete, Client::append
\* The three dispatchers differ in the counter and in the verb only; d is the
\* data (for append: the wrapper, whose name is append_to).
Mutate(api, verb, counter, d, opt_dst, ok) ==
    /\ CanCall
    /\ stats' = [stats EXCEPT ![counter] = @ + 1]
    /\ LET dst == IF opt_dst = None THEN NaeManager(d.name) ELSE opt_dst
           s == Dispatch(verb, dst, d, ok, Len(fut) + 1, heads)
       IN  /\ fut' = Append(Displaced(fut, heads, s.mid, ok),
                            Future(api, verb, s.st, s.ev, s.mid, FALSE, d))
           /\ heads' = s.heads
           /\ sent' = s.sent
           /\ nextId' = nextId + 1
           /\ removed' = Inserted(removed, s.mid, ok)
    /\ UNCHANGED <<clientType, account, cache, discarded, handles, alive, useOrder>>

Post(d, opt_dst, ok) == Mutate("post", "post", "posts", d, opt_dst, ok)

Delete(d, opt_dst, ok) == Mutate("delete", "delete", "deletes", d, opt_dst, ok)

AppendTo(d, opt_dst, ok) == Mutate("append", "append", "appends", d, opt_dst, ok)

\* Client::delete_recover: delete, with a `then` that absorbs "already gone"
DeleteRecover(d, opt_dst, ok) == Mutate("delete_recover", "delete", "deletes", d, opt_dst, ok)

\* ------------------------------------------------ Client::get_account_info
GetAccountInfo(opt_dst, ok) ==
    /\ CanCall
    /\ LET dst == IF opt_dst # None THEN Ok(opt_dst) ELSE cm_addr(clientType)
       IN  IF ~dst.ok
           THEN /\ fut' = Append(fut, Future("get_account_info", "get_account_info", "ready",
                                             CoreEvent("Mutation", dst), 0, FALSE, NoData))
                /\ UNCHANGED <<heads, sent, nextId, removed>>
           ELSE LET s == Dispatch("get_account_info", dst.val, NoData, ok, Len(fut) + 1, heads)
                IN  /\ fut' = Append(Displaced(fut, heads, s.mid, ok),
                                     Future("get_account_info", "get_account_info",
                                            s.st, s.ev, s.mid, FALSE, NoData))
                    /\ heads' = s.heads
                    /\ sent' = s.sent
                    /\ nextId' = nextId + 1
                    /\ removed' = Inserted(removed, s.mid, ok)
    /\ UNCHANGED <<clientType, account, cache, stats, discarded, handles, alive, useOrder>>

\* ----------------------- Client::set_user_root_dir_id / set_config_root_dir_id
\* an Account whose setters write the slot whatever it holds
account_set_overwrite(a, slot, dir) == [a EXCEPT ![slot] = dir]

\* Account::set_user_root_dir_id / Account::set_config_root_dir: the slot is
\* written only when it is empty (0), and the call tells whether it was.
account_set(a, slot, dir) == IF a[slot] = 0 THEN [a EXCEPT ![slot] = dir] ELSE a

\* DataIdentifier::Structured(acc_loc, TYPE_TAG_SESSION_PACKET)
SessionPacketId == Data("Structured", AccLoc, 0)

\* set_*_root_dir_id: the account slot is written, then update_session_packet
\* starts with the GET of the session packet; the closures of the returned
\* future hold two clones of the client.
\* a setter that leaves the slot to be written after the update
SetRootDirId_late(api, slot, dir, ok) ==
    /\ CanCall
    /\ IF ~acc_mut(clientType).ok
       THEN /\ fut' = Append(fut, Future(api, "none", "ready",
                                         CoreEvent("Failed", acc_mut(clientType)),
                                         0, FALSE, NoData))
            /\ UNCHANGED <<account, stats, heads, sent, nextId, removed>>
       ELSE IF account_set(account, slot, dir) = account
       THEN /\ fut' = Append(fut, Future(api, "none", "ready",
                                         CoreEvent("Failed", Err("RootDirectoryAlreadyExists", "")),
                                         0, FALSE, NoData))
            /\ UNCHANGED <<account, stats, heads, sent, nextId, removed>>
       ELSE IF ~acc_loc(clientType).ok
       THEN /\ account' = account_set(account, slot, dir)
            /\ fut' = Append(fut, Future(api, "none", "ready",
                                         CoreEvent("Failed", acc_loc(clientType)),
                                         0, FALSE, NoData))
            /\ UNCHANGED <<stats, heads, sent, nextId, removed>>
       ELSE LET s == Dispatch("get", NaeManager(acc_loc(clientType).val.name), SessionPacketId,
                              ok, Len(fut) + 1, heads)
            IN  /\ account' = account
                /\ stats' = [stats EXCEPT !.gets = @ + 1]
                /\ fut' = Append(Displaced(fut, heads, s.mid, ok),
                                 Future(api, "get", s.st, s.ev, s.mid, TRUE, NoData))
                /\ heads' = s.heads
                /\ sent' = s.sent
                /\ nextId' = nextId + 1
                /\ removed' = Inserted(removed, s.mid, ok)
    /\ UNCHANGED <<clientType, cache, discarded, handles, alive, useOrder>>

SetRootDirId(api, slot, dir, ok) ==
    /\ CanCall
    /\ IF ~acc_mut(clientType).ok
       THEN /\ fut' = Append(fut, Future(api, "none", "ready",
                                         CoreEvent("Failed", acc_mut(clientType)),
                                         0, FALSE, NoData))
            /\ UNCHANGED <<account, stats, heads, sent, nextId, removed>>
       ELSE IF account_set(account, slot, dir) = account
       THEN /\ fut' = Append(fut, Future(api, "none", "ready",
                                         CoreEvent("Failed", Err("RootDirectoryAlreadyExists", "")),
                                         0, FALSE, NoData))
            /\ UNCHANGED <<account, stats, heads, sent, nextId, removed>>
       ELSE IF ~acc_loc(clientType).ok
       THEN /\ account' = account_set(account, slot, dir)
            /\ fut' = Append(fut, Future(api, "none", "ready",
                                         CoreEvent("Failed", acc_loc(clientType)),
                                         0, FALSE, NoData))
            /\ UNCHANGED <<stats, heads, sent, nextId, removed>>
       ELSE LET s == Dispatch("get", NaeManager(acc_loc(clientType).val.name), SessionPacketId,
                              ok, Len(fut) + 1, heads)
            IN  /\ account' = account_set(account, slot, dir)
                /\ stats' = [stats EXCEPT !.gets = @ + 1]
                /\ fut' = Append(Displaced(fut, heads, s.mid, ok),
                                 Future(api, "get", s.st, s.ev, s.mid, TRUE, NoData))
                /\ heads' = s.heads
                /\ sent' = s.sent
                /\ nextId' = nextId + 1
                /\ removed' = Inserted(removed, s.mid, ok)
    /\ UNCHANGED <<clientType, cache, discarded, handles, alive, useOrder>>

SetUserRootDirId(dir, ok) == SetRootDirId("set_user_root_dir_id", "user", dir, ok)

SetConfigRootDirId(dir, ok) == SetRootDirId("set_config_root_dir_id", "config", dir, ok)

\* ------------------------------------------------------- routing event loop
\* routing_el::parse_get_err / parse_mutation_err: the indicator is
\* deserialised to the error enumeration; anything else is NetworkOther.
GetErrors == {"NoSuchData", "NoSuchAccount"}

MutationErrors == {"NoSuchData", "NoSuchAccount", "AccountExists", "DataExists",
                   "DataTooLarge", "InvalidSuccessor", "InvalidOperation",
                   "LowBalance", "NetworkFull"}

parse_get_err(ind) == IF ind \in GetErrors THEN ind ELSE "NetworkOther"

parse_mutation_err(ind) == IF ind \in MutationErrors THEN ind ELSE "NetworkOther"

\* routing::Response
Response(r, d, ind) == [r |-> r, data |-> d, ind |-> ind]

\* routing_el: the CoreEvent a Response is turned into
Classify(resp) ==
    CASE resp.r = "GetSuccess" -> CoreEvent("Get", Ok(resp.data))
      [] resp.r = "GetFailure" ->
            CoreEvent("Get", Err("GetFailure", parse_get_err(resp.ind)))
      [] resp.r \in {"PutSuccess", "PostSuccess", "DeleteSuccess", "AppendSuccess"} ->
            CoreEvent("Mutation", Ok(NoData))
      [] resp.r \in {"PutFailure", "PostFailure", "DeleteFailure", "AppendFailure"} ->
            CoreEvent("Mutation", Err("MutationFailure", parse_mutation_err(resp.ind)))
      [] resp.r = "GetAccountInfoSuccess" -> CoreEvent("AccountInfo", Ok(AccInfo))
      [] resp.r = "GetAccountInfoFailure" ->
            CoreEvent("AccountInfo", Err("GetFailure", parse_get_err(resp.ind)))

\* A Response event travels from routing through the event loop, which
\* classifies it and posts "complete this MessageId with this CoreEvent" to the
\* host, which runs it on the client's thread. The loop and the two channels
\* carry the message without touching the client, so the hops are folded into
\* the step in which the host runs the message: the handle is taken out of the
\* table and completed. Completing a handle whose future was dropped does
\* nothing; an id without an entry is logged and discarded.
Complete(f, r, id, ev) ==
    IF f[r].st = "pending"
    THEN [f EXCEPT ![r].st = "ready", ![r].ev = ev, ![r].by = id]
    ELSE f

HostComplete(id, resp) ==
    /\ alive
    /\ handles > 0
    /\ heads' = remove_head(heads, id)
    /\ IF id \in DOMAIN heads
       THEN /\ removed' = [removed EXCEPT ![id] = @ + 1]
            /\ fut' = Complete(fut, heads[id], id, Classify(resp))
            /\ discarded' = discarded
       ELSE /\ discarded < MaxDiscard
            /\ discarded' = discarded + 1
            /\ UNCHANGED <<removed, fut>>
    /\ UNCHANGED <<clientType, account, cache, stats, nextId, sent, handles, alive, useOrder>>

\* ------------------------------------------------------ polling a future
\* The CoreEvent kind the adapter of a verb's oneshot extracts
Expected(verb) ==
    CASE verb = "get" -> "Get"
      [] verb = "get_account_info" -> "AccountInfo"
      [] OTHER -> "Mutation"

\* an adapter that takes the result out of an event of any kind
Adapt_lenient(verb, ev) ==
    CASE ev.k = "Canceled" -> Err("OperationAborted", "")
      [] OTHER -> ev.res

\* oneshot.map_err(|_| OperationAborted).and_then(|event| match event ...):
\* build_mutation_future and the adapters in get and get_account_info
Adapt(verb, ev) ==
    CASE ev.k = "Canceled" -> Err("OperationAborted", "")
      [] ev.k = "Failed" -> ev.res
      [] ev.k = Expected(verb) -> ev.res
      [] OTHER -> Err("ReceivedUnexpectedEvent", "")

\* a map that never fills the cache
CacheFill_never(c, res) == c

\* a map that files the returned data under the first name
CacheFill_misnamed(c, res) ==
    IF res.ok /\ res.val.kind = "Immutable" THEN cache_insert(c, [res.val EXCEPT !.name = 1])
    ELSE c

\* a map that caches whatever data came back
CacheFill_any(c, res) == IF res.ok THEN cache_insert(c, res.val) ELSE c

\* The map spliced onto the future of an immutable GET that missed the cache:
\* returned Data::Immutable is inserted under its own name, anything else and
\* an error pass through.
CacheFill(c, res) ==
    IF res.ok /\ res.val.kind = "Immutable" THEN cache_insert(c, res.val) ELSE c

Fills(f) ==
    /\ f.api = "get" /\ f.rc
    /\ Adapt("get", f.ev).ok
    /\ Adapt("get", f.ev).val.kind = "Immutable"

Done(f, r, res) == [f EXCEPT ![r].st = "done", ![r].res = res, ![r].ev = NoEvent]

SetRootApis == {"set_user_root_dir_id", "set_config_root_dir_id"}

\* Account::encrypt / Account::decrypt under the key derived from user_cred
Encrypt(a) == [cipher |-> a]

Decrypt(c) == c.cipher

\* the public maid signing key, sole owner of the session packet
Maid == 1

\* a session packet that carries a new Account whatever the client holds
SessionPacket_empty(v, a) ==
    StructuredData(AccLoc, v, Encrypt([user |-> 0, config |-> 0]), {Maid}, {}, Maid)

\* the session packet update_session_packet builds: version, encrypted
\* account, owner keys [maid], no previous owner
SessionPacket(v, a) == StructuredData(AccLoc, v, Encrypt(a), {Maid}, {}, Maid)

\* an update that takes whatever data its GET returned
ExpectStructured_any(res) == res

\* and_then(|data| match data { Data::Structured(data) => Ok(data),
\*                              _ => Err(ReceivedUnexpectedData) })
ExpectStructured(res) ==
    IF ~res.ok THEN res
    ELSE IF res.val.kind # "Structured" THEN Err("ReceivedUnexpectedData", "")
    ELSE res

\* an update that keeps the version of the packet it fetched
SessionPacketUpdate_same(old, a) == SessionPacket(old.ver, a)

\* the packet update_session_packet builds from the one it fetched
SessionPacketUpdate(old, a) == SessionPacket(old.ver + 1, a)

\* Data::identifier
identifier(d) == Data(d.kind, d.name, 0)

\* the errors put_recover attempts recovery on
\* a put_recover that attempts recovery after every failure of its put
Recoverable_any(put_err) == ~put_err.ok

\* "Only attempt recovery on these errors"
Recoverable(put_err) ==
    /\ ~put_err.ok
    /\ put_err.e = "MutationFailure"
    /\ put_err.reason \in {"InvalidSuccessor", "DataExists"}

\* What the continuation of a future does with the result of the stage that
\* just resolved: the future is done with a result, or the next request is
\* sent.
StepDone(res) == [next |-> "done", res |-> res]

StepSend(verb, stage, d, opt_dst, arg) ==
    [next |-> "send", verb |-> verb, stage |-> stage, data |-> d, dst |-> opt_dst, arg |-> arg]

\* owners that never match
owner_match_never(old, new) == FALSE

\* owners that always match
owner_match_always(old, new) == TRUE

\* old.get_owner_keys() == new.get_owner_keys()
owner_match(old, new) == old.owners = new.owners

\* a `then` closure that hands the reclaim to put_recover again
RecoverThen_again(a, result) ==
    LET new == a.data
    IN  IF /\ result.ok
           /\ result.val.kind = "Structured"
           /\ new.kind = "Structured"
           /\ is_deleted(result.val)
        THEN StepSend("put", "put",
                      StructuredData(new.name, result.val.ver + 1, new.data, new.owners, new.prev,
                                     a.sign_sk),
                      a.dst, [a EXCEPT !.version = result.val.ver + 1])
        ELSE IF /\ result.ok
                /\ result.val.kind = new.kind
                /\ new.kind \in {"Structured", "PrivAppendable", "PubAppendable"}
        THEN StepDone(IF owner_match(result.val, new) THEN Ok(Version(a.version))
                      ELSE a.put_err)
        ELSE StepDone(a.put_err)

\* the `then` closure of put_recover, given the result of its GET
RecoverThen(a, result) ==
    LET new == a.data
    IN  IF /\ result.ok
           /\ result.val.kind = "Structured"
           /\ new.kind = "Structured"
           /\ is_deleted(result.val)
        THEN StepSend("put", "reput",
                      StructuredData(new.name, result.val.ver + 1, new.data, new.owners, new.prev,
                                     a.sign_sk),
                      a.dst, [a EXCEPT !.version = result.val.ver + 1])
        ELSE IF /\ result.ok
                /\ result.val.kind = new.kind
                /\ new.kind \in {"Structured", "PrivAppendable", "PubAppendable"}
        THEN StepDone(IF owner_match(result.val, new) THEN Ok(Version(a.version))
                      ELSE a.put_err)
        ELSE StepDone(a.put_err)

\* a delete_recover that absorbs nothing
DeleteRecoverThen_strict(result) == result

\* the `then` closure of delete_recover
DeleteRecoverThen(result) ==
    IF \/ result.ok
       \/ /\ result.e = "MutationFailure"
          /\ result.reason \in {"NoSuchData", "InvalidOperation"}
    THEN Ok(NoData)
    ELSE result

Step(f, res, a) ==
    CASE f.api \in SetRootApis /\ f.stage = "get" ->
            IF ~ExpectStructured(res).ok THEN StepDone(ExpectStructured(res))
            ELSE StepSend("post", "post", SessionPacketUpdate(ExpectStructured(res).val, a),
                          None, f.arg)
      [] f.api = "put_recover" /\ f.arg.data.kind = "Immutable" ->
            StepDone(IF res.ok THEN Ok(Version(0)) ELSE res)
      [] f.api = "put_recover" /\ f.arg.data.kind # "Immutable" /\ f.stage = "put" ->
            IF res.ok THEN StepDone(Ok(Version(f.arg.version)))
            ELSE IF Recoverable(res)
            THEN StepSend("get", "get", identifier(f.arg.data), None,
                          [f.arg EXCEPT !.put_err = res])
            ELSE StepDone(res)
      [] f.api = "put_recover" /\ f.arg.data.kind # "Immutable" /\ f.stage = "get" ->
            RecoverThen(f.arg, res)
      [] f.api = "put_recover" /\ f.arg.data.kind # "Immutable" /\ f.stage = "reput" ->
            StepDone(IF res.ok THEN Ok(Version(f.arg.version)) ELSE res)
      [] f.api = "delete_recover" -> StepDone(DeleteRecoverThen(res))
      [] OTHER -> StepDone(res)

\* the destination the dispatcher of a verb sends to
Target(verb, opt_dst, d, ct) ==
    IF opt_dst # None THEN Ok(opt_dst)
    ELSE IF verb = "put" THEN cm_addr(ct)
    ELSE Ok(NaeManager(d.name))

\* a chain that counts every request it sends as a get
Counter_gets(verb) == "gets"

\* the counter the dispatcher of a verb increments
Counter(verb) ==
    CASE verb = "get" -> "gets"
      [] verb = "put" -> "puts"
      [] verb = "post" -> "posts"

\* The executor polls a future whose oneshot was completed. The result of
\* the stage goes to the future's continuation: for an immutable GET that
\* missed the cache the spliced map inserts the returned immutable data; the
\* chains of update_session_packet and put_recover call get, post or put,
\* and when that call completes its handle at once (forbidden, send error)
\* the chain goes on within the same poll.
Poll(r, ok) ==
    /\ r \in 1..Len(fut)
    /\ fut[r].st = "ready"
    /\ LET f == fut[r]
           res == Adapt(f.stage, f.ev)
           st == Step(f, res, account)
       IN  IF st.next = "done"
           THEN /\ cache' = IF f.api = "get" /\ f.rc THEN CacheFill(cache, res) ELSE cache
                /\ Release(Done(fut, r, st.res), heads, handles)
                /\ UNCHANGED <<stats, sent, nextId>>
           ELSE LET dst == Target(st.verb, st.dst, st.data, clientType)
                    g == [f EXCEPT !.stage = st.stage, !.arg = st.arg, !.by = 0]
                IN  /\ stats' = [stats EXCEPT ![Counter(st.verb)] = @ + 1]
                    /\ cache' = cache
                    /\ IF ~dst.ok
                       THEN /\ Release(Done([fut EXCEPT ![r] = [g EXCEPT !.mid = 0]], r,
                                            Step(g, dst, account).res),
                                       heads, handles)
                            /\ UNCHANGED <<sent, nextId>>
                       ELSE LET s == Dispatch(st.verb, dst.val, st.data, ok, r, heads)
                            IN  /\ sent' = s.sent
                                /\ nextId' = nextId + 1
                                /\ IF ok
                                   THEN /\ fut' = [Displaced(fut, heads, s.mid, ok)
                                                      EXCEPT ![r] =
                                                      [g EXCEPT !.st = "pending", !.ev = NoEvent,
                                                                !.mid = s.mid]]
                                        /\ heads' = s.heads
                                        /\ removed' = Inserted(removed, s.mid, ok)
                                        /\ UNCHANGED <<alive, handles>>
                                   ELSE Release(Done([fut EXCEPT ![r] =
                                                        [g EXCEPT !.mid = s.mid, !.ev = s.ev]],
                                                     r, Step(g, Adapt(st.verb, s.ev), account).res),
                                                heads, handles)
    /\ useOrder' = IF Fills(fut[r]) THEN Touch(useOrder, Adapt("get", fut[r].ev).val.name)
                    ELSE useOrder
    /\ UNCHANGED <<clientType, account, discarded>>

\* ------------------------------------------------- drops and the Rc count
\* a drop of a future that also takes the future's Complete out of heads
DropFuture_unfile(r) ==
    /\ r \in 1..Len(fut)
    /\ Live(fut[r])
    /\ Release([fut EXCEPT ![r].st = "dropped", ![r].ev = NoEvent],
               remove_head(heads, fut[r].mid), handles)
    /\ UNCHANGED <<clientType, account, cache, stats, nextId, sent, discarded, useOrder>>

\* The caller drops a future it holds; its Complete stays in heads.
DropFuture(r) ==
    /\ r \in 1..Len(fut)
    /\ Live(fut[r])
    /\ Release([fut EXCEPT ![r].st = "dropped", ![r].ev = NoEvent], heads, handles)
    /\ UNCHANGED <<clientType, account, cache, stats, nextId, sent, discarded, useOrder>>

\* #[derive(Clone)] for Client
CloneClient ==
    /\ alive
    /\ handles > 0
    /\ handles < MaxHandles
    /\ handles' = handles + 1
    /\ UNCHANGED <<clientType, account, heads, cache, stats, fut, nextId, sent,
                   discarded, alive, removed, useOrder>>

\* a Client handle is dropped
DropClient ==
    /\ handles > 0
    /\ Release(fut, heads, handles - 1)
    /\ UNCHANGED <<clientType, account, cache, stats, nextId, sent, discarded, useOrder>>

\* ------------------------------------------------------------ the network
\* The store of the network, as mock routing keeps it: for each name the data
\* held there, a deleted StructuredData (tombstone) included.
Absent == Data("Absent", 0, 0)

\* a successor is one version up and signed by an owner of the data it
\* replaces (by a previous owner when that data is deleted)
\* a network that takes any version from an owner
ValidSuccessor_any(old, new) ==
    new.sig \in (IF old.owners = {} THEN old.prev ELSE old.owners)

ValidSuccessor(old, new) ==
    /\ new.ver = old.ver + 1
    /\ new.sig \in (IF old.owners = {} THEN old.prev ELSE old.owners)

NetResult(net, resp) == [net |-> net, resp |-> resp]

Store(net, d) == [net EXCEPT ![d.name] = d]

\* the reason a PUT over live data is refused with
PutRefusal(d) == IF d.name = AccLoc THEN "AccountExists" ELSE "DataExists"

\* what the network does with a request and what it answers
NetApply(net, c) ==
    LET d == c.data
        old == net[d.name]
    IN  CASE c.verb = "get" ->
                IF old = Absent THEN NetResult(net, Response("GetFailure", NoData, "NoSuchData"))
                ELSE NetResult(net, Response("GetSuccess", old, ""))
          [] c.verb = "put" ->
                IF old = Absent THEN NetResult(Store(net, d), Response("PutSuccess", NoData, ""))
                ELSE IF is_deleted(old)
                THEN IF ValidSuccessor(old, d)
                     THEN NetResult(Store(net, d), Response("PutSuccess", NoData, ""))
                     ELSE NetResult(net, Response("PutFailure", NoData, "InvalidSuccessor"))
                ELSE NetResult(net, Response("PutFailure", NoData, PutRefusal(d)))
          [] c.verb = "post" ->
                IF old = Absent THEN NetResult(net, Response("PostFailure", NoData, "NoSuchData"))
                ELSE IF is_deleted(old)
                THEN NetResult(net, Response("PostFailure", NoData, "InvalidOperation"))
                ELSE IF ValidSuccessor(old, d)
                THEN NetResult(Store(net, d), Response("PostSuccess", NoData, ""))
                ELSE NetResult(net, Response("PostFailure", NoData, "InvalidSuccessor"))
          [] c.verb = "delete" ->
                IF old = Absent
                THEN NetResult(net, Response("DeleteFailure", NoData, "NoSuchData"))
                ELSE IF is_deleted(old)
                THEN NetResult(net, Response("DeleteFailure", NoData, "InvalidOperation"))
                ELSE IF ValidSuccessor(old, d)
                THEN NetResult(Store(net, d), Response("DeleteSuccess", NoData, ""))
                ELSE NetResult(net, Response("DeleteFailure", NoData, "InvalidSuccessor"))

\* ------------------------------------- Client::registered, Client::login
MaxBoot == 3

\* boot: the number of constructor calls made, and for the last one the call,
\* whether its request was sent, the event recv_timeout returned, whether that
\* was the network's response to the request, whether the routing event loop
\* thread was spawned, and the result
NoBoot ==
    [n |-> 0, call |-> "none", sent |-> FALSE,
     ev |-> [resp |-> Response("None", NoData, ""), id |-> 0],
     timely |-> FALSE, joiner |-> FALSE, res |-> Ok(NoData)]

Booted(call, was_sent, ev, timely, res) ==
    [n |-> boot.n + 1, call |-> call, sent |-> was_sent, ev |-> ev, timely |-> timely,
     joiner |-> res.ok, res |-> res]

\* hist: the number of registered calls that returned a client, the number of
\* session packet updates the network accepted, the account the last of them
\* carried, and per slot the id set by a set_*_root_dir_id call whose future
\* resolved Ok
NoHist ==
    [accounts |-> 0, updates |-> 0, acc |-> [user |-> 0, config |-> 0],
     user |-> 0, config |-> 0]

\* Account::new(): no root directories
NewAccount == [user |-> 0, config |-> 0]

\* Self::new(Inner { .. client_type: ClientType::reg(acc, ..), .. })
NewClient(a) ==
    /\ clientType' = "Registered"
    /\ account' = a
    /\ heads' = EmptyHeads
    /\ cache' = <<>>
    /\ stats' = [gets |-> 0, puts |-> 0, posts |-> 0, deletes |-> 0, appends |-> 0]
    /\ fut' = <<>>
    /\ nextId' = 1
    /\ sent' = {}
    /\ discarded' = 0
    /\ handles' = 1
    /\ alive' = TRUE
    /\ removed' = EmptyHeads
    /\ useOrder' = <<>>

\* No client exists: none was constructed yet, or the last one is gone.
NoClient == ~alive /\ handles = 0

\* the MessageId the constructor makes for its request
BootId == 0

\* routing::Event as recv_timeout returns it: a response with its id, another
\* event, or the timeout
Event(resp, id) == [resp |-> resp, id |-> id]

RecvTimeout == Event(Response("Timeout", NoData, ""), BootId)

NoEventYet == Event(Response("None", NoData, ""), BootId)

\* What the constructor receives first: the network's response to its request
\* ("answer"), a refusal of the request for another reason ("refusal"), a
\* response that carries another id ("stray"), an event that is no response
\* to it ("unrelated"), or nothing within ACC_PKT_TIMEOUT_SECS ("timeout").
First(kind, resp) == [kind |-> kind, resp |-> resp]

Received(first, answer, msg_id) ==
    CASE first.kind = "answer" -> Event(answer, msg_id)
      [] first.kind = "refusal" -> Event(first.resp, msg_id)
      [] first.kind = "stray" -> Event(first.resp, msg_id + 1)
      [] first.kind = "unrelated" -> Event(first.resp, msg_id)
      [] OTHER -> RecvTimeout

\* setup_routing: Err(OperationAborted) unless Event::Connected comes first
setup_routing(connected) == IF connected THEN Ok(NoData) ELSE Err("OperationAborted", "")

\* a registered that takes a PutFailure for any other unexpected event
RegisteredOutcome_aborted(x, msg_id) ==
    IF x.resp.r = "PutSuccess" /\ x.id = msg_id THEN Ok(NoData)
    ELSE Err("OperationAborted", "")

\* a registered that does not compare the id of the response with its own
RegisteredOutcome_anyid(x, msg_id) ==
    CASE x.resp.r = "PutSuccess" -> Ok(NoData)
      [] x.resp.r = "PutFailure" -> Err("MutationFailure", parse_mutation_err(x.resp.ind))
      [] OTHER -> Err("OperationAborted", "")

\* the match on the event received after the PUT of the session packet
RegisteredOutcome(x, msg_id) ==
    CASE x.resp.r = "PutSuccess" /\ x.id = msg_id -> Ok(NoData)
      [] x.resp.r = "PutFailure" /\ x.id = msg_id ->
            Err("MutationFailure", parse_mutation_err(x.resp.ind))
      [] OTHER -> Err("OperationAborted", "")

\* Client::registered. connected: setup_routing got Event::Connected; ok: the
\* send call succeeded; first: what recv_timeout returned. The network handles
\* the request when its response is what comes first; otherwise the request is
\* lost.
Registered(connected, ok, first) ==
    /\ NoClient
    /\ boot.n < MaxBoot
    /\ LET acc_sd == SessionPacket(0, NewAccount)
           msg_id == BootId
           out == NetApply(network, SentCall(msg_id, "put", CmAddr, acc_sd, ok))
           sent_ok == setup_routing(connected).ok /\ ok
           x == IF sent_ok THEN Received(first, out.resp, msg_id) ELSE NoEventYet
           timely == sent_ok /\ first.kind = "answer"
           res == IF ~setup_routing(connected).ok THEN setup_routing(connected)
                  ELSE IF ~ok THEN SendError
                  ELSE RegisteredOutcome(x, msg_id)
       IN  /\ boot' = Booted("registered", sent_ok, x, timely, res)
           /\ network' = IF timely THEN out.net ELSE network
           /\ hist' = IF res.ok THEN [hist EXCEPT !.accounts = @ + 1] ELSE hist
           /\ IF res.ok THEN NewClient(NewAccount) ELSE UNCHANGED client

\* a login that takes a GetFailure for any other unexpected event
LoginOutcome_aborted(x, msg_id) ==
    IF x.resp.r = "GetSuccess" /\ x.resp.data.kind = "Structured" /\ x.id = msg_id
    THEN Ok(x.resp.data)
    ELSE Err("OperationAborted", "")

\* the match on the event received after the GET of the session packet
LoginOutcome(x, msg_id) ==
    CASE x.resp.r = "GetSuccess" /\ x.resp.data.kind = "Structured" ->
            IF x.id = msg_id THEN Ok(x.resp.data) ELSE Err("OperationAborted", "")
      [] x.resp.r = "GetFailure" /\ x.id = msg_id ->
            Err("GetFailure", parse_get_err(x.resp.ind))
      [] OTHER -> Err("OperationAborted", "")

\* Client::login
Login(connected, ok, first) ==
    /\ NoClient
    /\ boot.n < MaxBoot
    /\ hist' = hist
    /\ network' = network
    /\ LET acc_sd_id == SessionPacketId
           msg_id == BootId
           out == NetApply(network,
                           SentCall(msg_id, "get", NaeManager(acc_sd_id.name), acc_sd_id, ok))
           sent_ok == setup_routing(connected).ok /\ ok
           x == IF sent_ok THEN Received(first, out.resp, msg_id) ELSE NoEventYet
           acc_sd == IF ~setup_routing(connected).ok THEN setup_routing(connected)
                     ELSE IF ~ok THEN SendError
                     ELSE LoginOutcome(x, msg_id)
       IN  /\ boot' = Booted("login", sent_ok, x, sent_ok /\ first.kind = "answer",
                             IF acc_sd.ok THEN Ok(NoData) ELSE acc_sd)
           /\ IF acc_sd.ok THEN NewClient(Decrypt(acc_sd.val.data)) ELSE UNCHANGED client

\* ------------------------------------------------------------------- Init
\* The state a constructor leaves: Client::unregistered, or
\* Client::registered / Client::login with an Account without root dirs.
InitClient ==
    /\ clientType \in {"Unregistered", "Registered"}
    /\ account = [user |-> 0, config |-> 0]
    /\ heads = EmptyHeads
    /\ cache = <<>>
    /\ stats = [gets |-> 0, puts |-> 0, posts |-> 0, deletes |-> 0, appends |-> 0]
    /\ fut = <<>>
    /\ nextId = 1
    /\ sent = {}
    /\ discarded = 0
    /\ handles = 1
    /\ alive = TRUE
    /\ removed = EmptyHeads
    /\ useOrder = <<>>

\* the network is not looked at: the responses are inputs
Init ==
    /\ InitClient
    /\ network = [n \in Names |-> Absent]
    /\ boot = NoBoot
    /\ hist = NoHist

\* ------------------------------------------------------------ input sets
GetIds ==
    {Data("Immutable", n, 0) : n \in Names}
    \cup {Data(k, AccLoc, 0) : k \in Kinds \ {"Immutable"}}

MutData == {Data("Structured", AccLoc, 0)}

Dsts == {None, Authority("NaeManager", MaxName)}

RespData == {Data("Immutable", n, 0) : n \in Names} \cup {Data("Structured", AccLoc, 0)}

Responses ==
    {Response("GetSuccess", d, "") : d \in RespData}
    \cup {Response(k, NoData, "NoSuchData") : k \in {"GetFailure", "PutFailure"}}
    \cup {Response(k, NoData, "") : k \in {"PutSuccess", "GetAccountInfoSuccess"}}

Next ==
    \/ \E d \in GetIds, ok \in BOOLEAN : Get(d, None, ok) /\ UNCHANGED netvars
    \/ \E d \in MutData, dst \in Dsts, ok \in BOOLEAN : Put(d, dst, ok) /\ UNCHANGED netvars
    \/ \E d \in MutData, ok \in BOOLEAN : Post(d, None, ok) /\ UNCHANGED netvars
    \/ \E d \in MutData, ok \in BOOLEAN : Delete(d, None, ok) /\ UNCHANGED netvars
    \/ \E d \in MutData, ok \in BOOLEAN : AppendTo(d, None, ok) /\ UNCHANGED netvars
    \/ \E dst \in Dsts, ok \in BOOLEAN : GetAccountInfo(dst, ok) /\ UNCHANGED netvars
    \/ \E dir \in {1}, ok \in BOOLEAN : SetUserRootDirId(dir, ok) /\ UNCHANGED netvars
    \/ \E dir \in {1}, ok \in BOOLEAN : SetConfigRootDirId(dir, ok) /\ UNCHANGED netvars
    \/ \E id \in DOMAIN removed \cup {0}, resp \in Responses : HostComplete(id, resp)
          /\ UNCHANGED netvars
    \/ \E r \in 1..MaxFut, ok \in BOOLEAN : Poll(r, ok) /\ UNCHANGED netvars
    \/ \E r \in 1..MaxFut : DropFuture(r) /\ UNCHANGED netvars
    \/ CloneClient /\ UNCHANGED netvars
    \/ DropClient /\ UNCHANGED netvars

Spec == Init /\ [][Next]_vars

\* The specification for liveness: the same operations on fewer inputs, with
\* the fairness of the environment stated. Every request routing accepted is
\* eventually answered (the network answers or times the request out) and the
\* executor polls every future whose oneshot was completed.
MaxId == 2 * MaxFut

LiveResponses ==
    {Response("GetSuccess", Data("Structured", AccLoc, 0), ""),
     Response("GetFailure", NoData, "NoSuchData"),
     Response("PostSuccess", NoData, "")}

NextLive ==
    \/ \E ok \in BOOLEAN : Get(Data("Immutable", 1, 0), None, ok) /\ UNCHANGED netvars
    \/ \E ok \in BOOLEAN : Put(Data("Structured", AccLoc, 0), None, ok) /\ UNCHANGED netvars
    \/ \E ok \in BOOLEAN : SetUserRootDirId(1, ok) /\ UNCHANGED netvars
    \/ \E id \in DOMAIN heads \cup {0}, resp \in LiveResponses : HostComplete(id, resp)
          /\ UNCHANGED netvars
    \/ \E r \in 1..MaxFut, ok \in BOOLEAN : Poll(r, ok) /\ UNCHANGED netvars
    \/ \E r \in 1..MaxFut : DropFuture(r) /\ UNCHANGED netvars
    \/ CloneClient /\ UNCHANGED netvars
    \/ DropClient /\ UNCHANGED netvars

Answered(id) ==
    /\ id \in DOMAIN heads
    /\ \E resp \in LiveResponses : HostComplete(id, resp)
    /\ UNCHANGED netvars

Polled(r) == (\E ok \in BOOLEAN : Poll(r, ok)) /\ UNCHANGED netvars

FairSpec ==
    /\ Init
    /\ [][NextLive]_vars
    /\ \A id \in 1..MaxId : WF_vars(Answered(id))
    /\ \A r \in 1..MaxFut : WF_vars(Polled(r))

\* The specification for the eviction of the cache: one unregistered client
\* fetches the immutable names 1, 2, ... one after the other from a network
\* that answers each GET with the data asked for, and drops each future once
\* it has resolved. When the cache is full the caller may hit one of the first
\* MaxHitName names again, then fetch one name more than the cache holds, and
\* fetch an evicted name again.
LRUNames == 1..(IMMUT_DATA_CACHE_SIZE + 1)

LRUHits == stats.gets - (nextId - 1)

LRUGet(n) ==
    /\ fut = <<>>
    /\ IF n \in CacheNames(cache)
       THEN Len(cache) = IMMUT_DATA_CACHE_SIZE /\ n <= MaxHitName /\ LRUHits < MaxHits
       ELSE \/ n = Len(useOrder) + 1
            \/ /\ Len(useOrder) = IMMUT_DATA_CACHE_SIZE + 1
               /\ nextId - 1 < IMMUT_DATA_CACHE_SIZE + 1 + MaxRefetch
    /\ Get(Data("Immutable", n, 0), None, TRUE)

LRUAnswer ==
    \E id \in DOMAIN heads : HostComplete(id, Response("GetSuccess", fut[heads[id]].arg, ""))

\* the caller lets go of the futures that have resolved
ForgetResolved ==
    /\ fut # <<>>
    /\ heads = EmptyHeads
    /\ \A r \in 1..Len(fut) : fut[r].st = "done"
    /\ fut' = <<>>
    /\ UNCHANGED <<clientType, account, heads, cache, stats, nextId, sent,
                   discarded, handles, alive, removed, useOrder>>

InitLRU == Init /\ clientType = "Unregistered"

NextLRU ==
    \/ \E n \in LRUNames : LRUGet(n) /\ UNCHANGED netvars
    \/ LRUAnswer /\ UNCHANGED netvars
    \/ Poll(1, TRUE) /\ UNCHANGED netvars
    \/ ForgetResolved /\ UNCHANGED netvars

SpecLRU == InitLRU /\ [][NextLRU]_vars

\* The specification for the recovery protocols: put_recover and
\* delete_recover of data named DataName, on a network that may answer a
\* request with any response of the request's kind.
DataName == MaxName

Other == 2

RecoverPuts ==
    {StructuredData(DataName, 0, Bytes(1), {Maid}, {}, Maid),
     Versioned("PrivAppendable", DataName, 1, Bytes(1), {Maid}, {}, Maid),
     Data("Immutable", DataName, 0)}

RecoverDeletes == {StructuredData(DataName, 1, NoBytes, {}, {Maid}, Maid)}

Stored ==
    {StructuredData(DataName, 1, NoBytes, {}, {Maid}, Maid),
     StructuredData(DataName, 2, Bytes(1), {Maid}, {}, Maid),
     StructuredData(DataName, 0, Bytes(1), {Other}, {}, Other),
     Versioned("PrivAppendable", DataName, 0, Bytes(1), {Maid}, {}, Maid),
     Data("Immutable", DataName, 0)}

RecoverResponses(verb) ==
    CASE verb = "get" ->
            {Response("GetSuccess", d, "") : d \in Stored}
            \cup {Response("GetFailure", NoData, "NoSuchData")}
      [] verb = "put" ->
            {Response("PutSuccess", NoData, "")}
            \cup {Response("PutFailure", NoData, e) :
                     e \in {"DataExists", "InvalidSuccessor", "LowBalance"}}
      [] verb = "delete" ->
            {Response("DeleteSuccess", NoData, "")}
            \cup {Response("DeleteFailure", NoData, e) :
                     e \in {"NoSuchData", "InvalidOperation", "InvalidSuccessor", "?"}}

VerbOf(id) == (CHOOSE c \in sent : c.id = id).verb

NextRecover ==
    \/ \E d \in RecoverPuts, dst \in Dsts, ok \in BOOLEAN : PutRecover(d, dst, Maid, ok)
          /\ UNCHANGED netvars
    \/ \E d \in RecoverDeletes, ok \in BOOLEAN : DeleteRecover(d, None, ok) /\ UNCHANGED netvars
    \/ \E id \in DOMAIN heads : \E resp \in RecoverResponses(VerbOf(id)) : HostComplete(id, resp)
          /\ UNCHANGED netvars
    \/ \E r \in 1..MaxFut, ok \in BOOLEAN : Poll(r, ok) /\ UNCHANGED netvars
    \/ \E r \in 1..MaxFut : DropFuture(r) /\ UNCHANGED netvars
    \/ DropClient /\ UNCHANGED netvars

SpecRecover == Init /\ [][NextRecover]_vars

\* The specification for sessions on the network: clients are constructed by
\* registered and login, one after the other is gone, on a network that keeps
\* its store as mock routing does and answers each request from it. The
\* callers set the root directories.
Dirs == 1..2

\* the state in which no client exists
Blank ==
    /\ clientType = "Unregistered"
    /\ account = NewAccount
    /\ heads = EmptyHeads
    /\ cache = <<>>
    /\ stats = [gets |-> 0, puts |-> 0, posts |-> 0, deletes |-> 0, appends |-> 0]
    /\ fut = <<>>
    /\ nextId = 1
    /\ sent = {}
    /\ discarded = 0
    /\ handles = 0
    /\ alive = FALSE
    /\ removed = EmptyHeads
    /\ useOrder = <<>>

InitNet ==
    /\ Blank
    /\ network = [n \in Names |-> Absent]
    /\ boot = NoBoot
    /\ hist = NoHist

RequestOf(id) == CHOOSE c \in sent : c.id = id

\* the network handles the request with this id and its response reaches the
\* host
NetAnswer(id) ==
    LET c == RequestOf(id)
        out == NetApply(network, c)
    IN  /\ HostComplete(id, out.resp)
        /\ network' = out.net
        /\ boot' = boot
        /\ hist' = IF c.verb = "post" /\ c.data.name = AccLoc /\ out.resp.r = "PostSuccess"
                   THEN [hist EXCEPT !.updates = @ + 1, !.acc = Decrypt(c.data.data)]
                   ELSE hist

Slot(api) == IF api = "set_user_root_dir_id" THEN "user" ELSE "config"

NetPoll(r, ok) ==
    /\ Poll(r, ok)
    /\ UNCHANGED <<network, boot>>
    /\ hist' = IF fut[r].api \in SetRootApis /\ fut'[r].st = "done" /\ fut'[r].res.ok
               THEN [hist EXCEPT ![Slot(fut[r].api)] = account[Slot(fut[r].api)]]
               ELSE hist

\* The session ends: the caller drops its Client and the futures it still
\* holds, so Inner is dropped; requests not yet answered are lost.
CloseSession ==
    /\ alive
    /\ handles = 1
    /\ clientType' = "Unregistered"
    /\ account' = NewAccount
    /\ heads' = EmptyHeads
    /\ cache' = <<>>
    /\ stats' = [gets |-> 0, puts |-> 0, posts |-> 0, deletes |-> 0, appends |-> 0]
    /\ fut' = <<>>
    /\ nextId' = 1
    /\ sent' = {}
    /\ discarded' = 0
    /\ handles' = 0
    /\ alive' = FALSE
    /\ removed' = EmptyHeads
    /\ useOrder' = <<>>
    /\ UNCHANGED netvars

\* what the two constructors may receive first
FirstCommon ==
    {First("answer", Response("None", NoData, "")),
     First("timeout", Response("None", NoData, "")),
     First("unrelated", Response("Terminate", NoData, "")),
     First("unrelated", Response("GetAccountInfoSuccess", NoData, ""))}

FirstPut ==
    FirstCommon
    \cup {First("refusal", Response("PutFailure", NoData, ind)) : ind \in {"LowBalance", "?"}}
    \cup {First("stray", r) : r \in {Response("PutSuccess", NoData, ""),
                                      Response("PutFailure", NoData, "AccountExists")}}

FirstGet ==
    FirstCommon
    \cup {First("refusal", Response("GetFailure", NoData, ind)) : ind \in {"NoSuchAccount", "?"}}
    \cup {First("stray", r) : r \in {Response("GetSuccess", SessionPacket(0, NewAccount), ""),
                                      Response("GetFailure", NoData, "NoSuchData")}}
    \cup {First("unrelated", Response("GetSuccess", Data("Immutable", AccLoc, 0), ""))}

NextNet ==
    \/ \E connected \in BOOLEAN, ok \in BOOLEAN, first \in FirstPut :
          Registered(connected, ok, first)
    \/ \E connected \in BOOLEAN, ok \in BOOLEAN, first \in FirstGet :
          Login(connected, ok, first)
    \/ \E dir \in Dirs, ok \in BOOLEAN : SetUserRootDirId(dir, ok) /\ UNCHANGED netvars
    \/ \E dir \in Dirs, ok \in BOOLEAN : SetConfigRootDirId(dir, ok) /\ UNCHANGED netvars
    \/ \E id \in DOMAIN heads : NetAnswer(id)
    \/ \E r \in 1..MaxFut, ok \in BOOLEAN : NetPoll(r, ok)
    \/ CloseSession

SpecNet == InitNet /\ [][NextNet]_vars

\* The specification for the reclaim of a deleted StructuredData: a registered
\* client puts, deletes and put_recovers the data named DataName, which the
\* network may hold from the start, live or deleted, owned by the client or
\* by somebody else. The caller makes its calls while fewer than MaxReq
\* requests were sent and lets go of the futures that have resolved.
MaxReq == 3

Payload == 2

NetPut == StructuredData(DataName, 0, Bytes(1), {Maid}, {}, Maid)

NetDelete == StructuredData(DataName, 1, NoBytes, {}, {Maid}, Maid)

NetRecover == StructuredData(DataName, 0, Bytes(Payload), {Maid}, {}, Maid)

InitSlots ==
    {Absent,
     NetDelete,
     StructuredData(DataName, 2, NoBytes, {}, {Maid}, Maid),
     StructuredData(DataName, 1, NoBytes, {}, {Other}, Other),
     StructuredData(DataName, 0, Bytes(1), {Other}, {}, Other)}

InitReclaim ==
    /\ InitClient
    /\ clientType = "Registered"
    /\ boot = NoBoot
    /\ hist = NoHist
    /\ \E slot \in InitSlots :
          network = [n \in Names |-> IF n = DataName THEN slot
                                     ELSE IF n = AccLoc THEN SessionPacket(0, NewAccount)
                                     ELSE Absent]

MayCall == nextId <= MaxReq

NextReclaim ==
    \/ \E ok \in BOOLEAN : MayCall /\ Put(NetPut, None, ok) /\ UNCHANGED netvars
    \/ \E ok \in BOOLEAN : MayCall /\ Delete(NetDelete, None, ok) /\ UNCHANGED netvars
    \/ \E ok \in BOOLEAN : MayCall /\ PutRecover(NetRecover, None, Maid, ok)
          /\ UNCHANGED netvars
    \/ \E id \in DOMAIN heads : NetAnswer(id)
    \/ \E r \in 1..MaxFut, ok \in BOOLEAN : NetPoll(r, ok)
    \/ ForgetResolved /\ UNCHANGED netvars

SpecReclaim == InitReclaim /\ [][NextReclaim]_vars

\* A client whose MessageId::new() may return an id that is still in heads:
\* Collide makes the next id the one of a request that waits for its response.
InitDup == Init /\ clientType = "Registered"

Collide ==
    /\ alive
    /\ \E id \in DOMAIN heads : nextId' = id
    /\ nextId \notin DOMAIN heads
    /\ UNCHANGED <<clientType, account, heads, cache, stats, fut, sent, discarded,
                   handles, alive, removed, useOrder>>

DupIds == {Data("Immutable", 1, 0), Data("Structured", AccLoc, 0)}

\* calls are made while fewer than MaxReq requests were counted
MayIssue == nextId <= MaxReq /\ stats.gets + stats.posts < MaxReq

NextDup ==
    \/ \E d \in DupIds, ok \in BOOLEAN : MayIssue /\ Get(d, None, ok) /\ UNCHANGED netvars
    \/ \E d \in MutData, ok \in BOOLEAN : MayIssue /\ Post(d, None, ok) /\ UNCHANGED netvars
    \/ \E dir \in {1}, ok \in BOOLEAN : MayIssue /\ SetUserRootDirId(dir, ok)
          /\ UNCHANGED netvars
    \/ Collide /\ UNCHANGED netvars
    \/ \E id \in DOMAIN heads, resp \in Responses : HostComplete(id, resp)
          /\ UNCHANGED netvars
    \/ \E r \in 1..MaxFut, ok \in BOOLEAN : MayIssue /\ Poll(r, ok) /\ UNCHANGED netvars
    \/ ForgetResolved /\ UNCHANGED netvars
    \/ DropClient /\ UNCHANGED netvars

SpecDup == InitDup /\ [][NextDup]_vars

\* The specification for two concurrent updates of the session packet: a
\* registered client whose packet the network holds, and a caller that makes
\* its set_*_root_dir_id calls while the GET of every call made so far is
\* still unanswered. The network answers the requests in any order.
InitRace ==
    /\ InitClient
    /\ clientType = "Registered"
    /\ boot = NoBoot
    /\ hist = NoHist
    /\ network = [n \in Names |-> IF n = AccLoc THEN SessionPacket(0, NewAccount) ELSE Absent]

Undelivered ==
    \A r \in 1..Len(fut) :
        fut[r].stage = "get" /\ fut[r].st = "pending" /\ fut[r].mid \in DOMAIN heads

NextRace ==
    \/ \E dir \in Dirs, ok \in BOOLEAN : Undelivered /\ SetUserRootDirId(dir, ok)
          /\ UNCHANGED netvars
    \/ \E dir \in Dirs, ok \in BOOLEAN : Undelivered /\ SetConfigRootDirId(dir, ok)
          /\ UNCHANGED netvars
    \/ \E id \in DOMAIN heads : NetAnswer(id)
    \/ \E r \in 1..MaxFut, ok \in BOOLEAN : NetPoll(r, ok)

SpecRace == InitRace /\ [][NextRace]_vars

\* The specification for the chains of put_recover, delete_recover and
\* update_session_packet: every request is answered in the end, with any
\* response of its verb, and the executor polls every future whose oneshot
\* was completed.
ChainAnswered(id) ==
    /\ id \in DOMAIN heads
    /\ \E resp \in (IF VerbOf(id) = "post"
                     THEN {Response("PostSuccess", NoData, ""),
                           Response("PostFailure", NoData, "InvalidSuccessor")}
                     ELSE RecoverResponses(VerbOf(id))) :
          HostComplete(id, resp)
    /\ UNCHANGED netvars

NextChains ==
    \/ \E d \in RecoverPuts, ok \in BOOLEAN : PutRecover(d, None, Maid, ok)
          /\ UNCHANGED netvars
    \/ \E d \in RecoverDeletes, ok \in BOOLEAN : DeleteRecover(d, None, ok)
          /\ UNCHANGED netvars
    \/ \E ok \in BOOLEAN : SetUserRootDirId(1, ok) /\ UNCHANGED netvars
    \/ \E id \in 1..(3 * MaxFut) : ChainAnswered(id)
    \/ \E r \in 1..MaxFut : Polled(r)

FairChains ==
    /\ Init
    /\ [][NextChains]_vars
    /\ WF_vars(\E id \in 1..(3 * MaxFut) : ChainAnswered(id))
    /\ WF_vars(\E r \in 1..MaxFut : Polled(r))

\* ================================================================ claims
NewFut == fut'[Len(fut')]

Called(api) == Len(fut') = Len(fut) + 1 /\ NewFut.api = api

Forbidden == Err("OperationForbiddenForClient", "")

Aborted == Err("OperationAborted", "")

\* C1: every MessageId inserted into heads is removed exactly once, by
\* remove_head for a response carrying it or by the drop of Inner at teardown;
\* no id is removed twice, none is left in the table after teardown, and a
\* cancelled oneshot only exists after teardown and yields OperationAborted.
C1_RemovedExactlyOnce ==
    /\ DOMAIN heads \subseteq DOMAIN removed
    /\ \A id \in DOMAIN removed : removed[id] = IF id \in DOMAIN heads THEN 0 ELSE 1
    /\ ~alive => heads = EmptyHeads
    /\ \A r \in 1..Len(fut) :
          fut[r].ev = Canceled => ~alive /\ Adapt(fut[r].stage, fut[r].ev) = Aborted

C1_Witness ==
    /\ ~alive
    /\ \E r \in 1..Len(fut) : fut[r].ev = Canceled
    /\ \E r \in 1..Len(fut) : fut[r].by # 0 /\ removed[fut[r].by] = 1

\* C2: a future is completed by a response only if the response carries the
\* MessageId of the future's own request, and a completed or resolved future
\* is not completed or resolved a second time.
C2_OwnId == \A r \in 1..Len(fut) : fut[r].by # 0 => fut[r].by = fut[r].mid

C2_Once ==
    \A r \in 1..Len(fut) :
        /\ fut[r].st = "done" => fut'[r] = fut[r]
        /\ fut[r].st = "ready" /\ fut'[r].st = "ready" => fut'[r] = fut[r]

C2_ResolvedByOwnId == [](C2_OwnId) /\ [][C2_Once]_vars

C2_Witness ==
    /\ Len(fut) = 2
    /\ fut[1].by # 0 /\ fut[1].st = "ready"
    /\ fut[2].by # 0 /\ fut[2].st = "done"

\* C3: every returned future eventually resolves unless the caller drops it or
\* the client is dropped; after the shutdown of the client no future is
\* pending, and a future whose oneshot was cancelled resolves OperationAborted.
C3_NoPending == ~alive => \A r \in 1..Len(fut) : fut[r].st # "pending"

C3_AbortedStep ==
    \A r \in 1..Len(fut) :
        fut[r].ev = Canceled /\ fut'[r].st = "done" => fut'[r].res = Aborted

C3_Settled(r) == r <= Len(fut) /\ (fut[r].st \in {"done", "dropped"} \/ handles = 0)

C3_Eventually == \A r \in 1..MaxFut : (r <= Len(fut)) ~> C3_Settled(r)

C4_Hit(x) ==
    /\ sent' = sent
    /\ heads' = heads
    /\ nextId' = nextId
    /\ NewFut.st = "ready"
    /\ x \in CacheNames(cache)
    /\ NewFut.ev = CoreEvent("Get", Ok(CacheLookup(cache, x)))

C4_SecondGet(x) == Called("get") /\ NewFut.arg = Data("Immutable", x, 0)

C4_ResolvedOk(r, x) ==
    /\ fut[r].api = "get"
    /\ fut[r].arg = Data("Immutable", x, 0)
    /\ fut[r].st = "done"
    /\ fut[r].res.ok

C4_Original ==
    [][\A x \in Names :
         C4_SecondGet(x) /\ (\E r \in 1..Len(fut) : C4_ResolvedOk(r, x)) => C4_Hit(x)]_vars

\* C4 (amended): once a get of Immutable(X) has resolved successfully with
\* Data::Immutable named X, a further get of Immutable(X) is answered from the
\* cache with that data: it sends nothing and inserts nothing into heads.
C4_ResolvedWithX(r, x) == C4_ResolvedOk(r, x) /\ fut[r].res.val = Data("Immutable", x, 0)

C4_SecondGetFromCache ==
    [][\A x \in Names :
         C4_SecondGet(x) /\ (\E r \in 1..Len(fut) : C4_ResolvedWithX(r, x)) => C4_Hit(x)]_vars

C4_Witness ==
    /\ Len(fut) = 2
    /\ fut[1].api = "get" /\ fut[1].rc /\ fut[1].st = "done"
    /\ fut[1].res = Ok(fut[1].arg)
    /\ fut[2].api = "get" /\ fut[2].arg = fut[1].arg
    /\ fut[2].mid = 0 /\ fut[2].st = "done" /\ fut[2].res = Ok(fut[1].arg)
    /\ Cardinality(sent) = 1

\* C5: the cache holds only Data::Immutable, and the resolution of a get of a
\* Structured, PrivAppendable or PubAppendable identifier leaves the cache
\* alone.
C5_OnlyImmutable == \A i \in 1..Len(cache) : cache[i].kind = "Immutable"

C5_Step ==
    \A r \in 1..Len(fut) :
        fut[r].st = "ready" /\ fut'[r].st = "done" /\ fut[r].arg.kind # "Immutable"
            => cache' = cache

C5_CacheOnlyImmutable == [](C5_OnlyImmutable) /\ [][C5_Step]_vars

C5_Witness ==
    /\ cache # <<>>
    /\ \E r \in 1..Len(fut) :
          /\ fut[r].api = "get" /\ fut[r].rc /\ fut[r].st = "done"
          /\ fut[r].res.ok /\ fut[r].res.val.kind # "Immutable"

\* C6: the cache never holds more than IMMUT_DATA_CACHE_SIZE entries, and it
\* holds exactly the IMMUT_DATA_CACHE_SIZE most recently used names, a use
\* being an insertion or a cache hit: an insertion into a full cache evicts
\* the least recently used name and no other.
MostRecent(u, k) == {u[i] : i \in (IF Len(u) > k THEN Len(u) - k + 1 ELSE 1)..Len(u)}

C6_LRU ==
    /\ Len(cache) <= IMMUT_DATA_CACHE_SIZE
    /\ Cardinality(CacheNames(cache)) = Len(cache)
    /\ CacheNames(cache) = MostRecent(useOrder, IMMUT_DATA_CACHE_SIZE)

\* 301 names were fetched and name 1 was hit when the cache was full: name 2
\* was the least recently used and is gone, name 1 and the others are cached
C6_Witness ==
    /\ Len(useOrder) = IMMUT_DATA_CACHE_SIZE + 1
    /\ LRUHits = 1
    /\ CacheNames(cache) = LRUNames \ {2}

\* C7: on an Unregistered client set_user_root_dir_id and
\* set_config_root_dir_id fail with OperationForbiddenForClient, send nothing
\* and change nothing of the client; both root dir ids stay None.
C7_Step ==
    clientType = "Unregistered"
    /\ (Called("set_user_root_dir_id") \/ Called("set_config_root_dir_id"))
    => /\ NewFut.st = "ready"
       /\ Adapt(NewFut.stage, NewFut.ev) = Forbidden
       /\ UNCHANGED <<clientType, account, heads, cache, stats, sent, nextId>>

C7_Inv ==
    clientType = "Unregistered"
    => /\ user_root_dir_id = 0
       /\ config_root_dir_id = 0
       /\ \A r \in 1..Len(fut) :
             fut[r].api \in SetRootApis /\ fut[r].st = "done" => fut[r].res = Forbidden

C7_UnregisteredSetRootForbidden == [](C7_Inv) /\ [][C7_Step]_vars

C7_Witness ==
    /\ clientType = "Unregistered"
    /\ Len(fut) = 2
    /\ fut[1].api = "set_user_root_dir_id" /\ fut[1].st = "done" /\ fut[1].res = Forbidden
    /\ fut[2].api = "set_config_root_dir_id" /\ fut[2].st = "done" /\ fut[2].res = Forbidden
    /\ sent = {}

\* C8: put without a destination on an Unregistered client resolves with
\* OperationForbiddenForClient, sends nothing and inserts nothing into heads;
\* put with a caller-supplied destination calls routing with that destination
\* on either client type.
C8_Step ==
    \A d \in MutData, dst \in Dsts, ok \in BOOLEAN :
        Put(d, dst, ok)
        => /\ dst = None /\ clientType = "Unregistered"
              => /\ sent' = sent
                 /\ heads' = heads
                 /\ NewFut.st = "ready"
                 /\ NewFut.mid = 0
                 /\ Adapt("put", NewFut.ev) = Forbidden
           /\ dst # None
              => /\ sent' = sent \cup {SentCall(nextId, "put", dst, d, ok)}
                 /\ NewFut.mid = nextId

C8_Inv ==
    \A r \in 1..Len(fut) :
        fut[r].api = "put" /\ fut[r].mid = 0 /\ fut[r].st = "done"
            => fut[r].res = Forbidden /\ clientType = "Unregistered"

C8_PutDestination == [](C8_Inv) /\ [][C8_Step]_vars

C8_Witness ==
    /\ clientType = "Unregistered"
    /\ Len(fut) = 2
    /\ fut[1].api = "put" /\ fut[1].mid = 0 /\ fut[1].st = "done" /\ fut[1].res = Forbidden
    /\ fut[2].api = "put" /\ fut[2].st = "pending"
    /\ sent = {SentCall(fut[2].mid, "put", Authority("NaeManager", MaxName), fut[2].arg, TRUE)}
    /\ DOMAIN heads = {fut[2].mid}

\* C9 (as claimed): get_account_info without a destination on an Unregistered
\* client resolves with OperationForbiddenForClient.
C9_Original ==
    \A r \in 1..Len(fut) :
        fut[r].api = "get_account_info" /\ fut[r].mid = 0 /\ fut[r].st = "done"
            => fut[r].res = Forbidden

\* C10 (as claimed): a future whose routing send call failed resolves with the
\* send error, for get, put, post, delete and append.
SendFailed(r) == \E c \in sent : c.id = fut[r].mid /\ ~c.ok

C10_Original ==
    \A r \in 1..Len(fut) :
        /\ fut[r].api \in {"get", "put", "post", "delete", "append"}
        /\ fut[r].st = "done"
        /\ SendFailed(r)
        => fut[r].res = SendError
\* C15: delete_recover resolves Ok(()) when the delete succeeded or failed
\* with MutationFailure NoSuchData or InvalidOperation, and with the error of
\* the delete unchanged otherwise; the call sends exactly one request, a
\* delete, and the resolution of its future sends nothing.
C15_Absorbed(under) ==
    \/ under.ok
    \/ under.e = "MutationFailure" /\ under.reason \in {"NoSuchData", "InvalidOperation"}

C15_Resolve ==
    \A r \in 1..Len(fut) :
        fut[r].api = "delete_recover" /\ fut[r].st = "ready" /\ fut'[r].st = "done"
        => /\ fut'[r].res = IF C15_Absorbed(Adapt("delete", fut[r].ev)) THEN Ok(NoData)
                             ELSE Adapt("delete", fut[r].ev)
           /\ sent' = sent

C15_Call ==
    Called("delete_recover")
    => /\ Cardinality(sent') = Cardinality(sent) + 1
       /\ \A c \in sent' \ sent : c.verb = "delete" /\ c.id = NewFut.mid

C15_OneDelete ==
    \A r \in 1..Len(fut) :
        fut[r].api = "delete_recover"
        => Cardinality({c \in sent : c.id = fut[r].mid}) = 1

C15_DeleteRecover == [](C15_OneDelete) /\ [][C15_Resolve /\ C15_Call]_vars

\* one delete_recover resolved Ok and another with the error of its delete,
\* and the two calls sent two requests
C15_Witness ==
    /\ Len(fut) = 2
    /\ fut[1].api = "delete_recover" /\ fut[1].st = "done" /\ fut[1].res = Ok(NoData)
    /\ fut[2].api = "delete_recover" /\ fut[2].st = "done"
    /\ fut[2].res = Err("MutationFailure", "InvalidSuccessor")
    /\ Cardinality(sent) = 2

\* C18: each call of get, put, post, delete and append, made by the caller
\* or inside update_session_packet and put_recover, cache hits and failed
\* sends included, adds one to its own counter and leaves the other four;
\* get_account_info and every other step change no counter; so each issued_*
\* equals the number of calls made and never decreases.
C18_Plus(counter) == stats' = [stats EXCEPT ![counter] = @ + 1]

\* the call a step makes, read off the futures: a new future, or a chain that
\* moved on to its next request
C18_CallOf(api, stage) ==
    CASE api \in {"get"} -> "gets"
      [] api \in {"put", "put_recover"} /\ stage = "put" -> "puts"
      [] api = "post" -> "posts"
      [] api \in {"delete", "delete_recover"} -> "deletes"
      [] api = "append" -> "appends"
      [] stage = "get" -> "gets"
      [] stage = "post" -> "posts"
      [] stage = "reput" -> "puts"
      [] OTHER -> "none"

C18_Step ==
    IF Len(fut') = Len(fut) + 1
    THEN IF C18_CallOf(NewFut.api, NewFut.stage) = "none" THEN stats' = stats
         ELSE C18_Plus(C18_CallOf(NewFut.api, NewFut.stage))
    ELSE IF \E r \in 1..Len(fut) : Len(fut') = Len(fut) /\ fut'[r].stage # fut[r].stage
    THEN \A r \in 1..Len(fut) :
            fut'[r].stage # fut[r].stage => C18_Plus(C18_CallOf("chain", fut'[r].stage))
    ELSE stats' = stats

C18_Count(counter) ==
    Cardinality({r \in 1..Len(fut) : C18_CallOf(fut[r].api, "put") = counter})
    + Cardinality({r \in 1..Len(fut) :
                     /\ fut[r].api \in SetRootApis \cup {"put_recover"}
                     /\ \/ counter = "gets" /\ fut[r].stage \in {"get", "post", "reput"}
                        \/ counter = "posts" /\ fut[r].stage = "post"
                        \/ counter = "puts" /\ fut[r].stage = "reput"})

C18_Totals ==
    /\ issued_gets = C18_Count("gets")
    /\ issued_puts = C18_Count("puts")
    /\ issued_posts = C18_Count("posts")
    /\ issued_deletes = C18_Count("deletes")
    /\ issued_appends = C18_Count("appends")

C20_OnlySent == \A id \in DOMAIN heads : \E c \in sent : c.id = id /\ c.ok

C20_Step ==
    /\ Len(fut') = Len(fut) + 1 /\ sent' = sent => heads' = heads
    /\ \A c \in sent' \ sent :
          IF c.ok
          THEN /\ c.id \notin DOMAIN heads
               /\ DOMAIN heads' = DOMAIN heads \cup {c.id}
               /\ \A id \in DOMAIN heads : heads'[id] = heads[id]
          ELSE /\ c.id \notin DOMAIN heads'
               /\ Len(fut') = Len(fut) + 1 => heads' = heads
    /\ Cardinality(sent' \ sent) <= 1

C20_EntryOnlyOnSuccess == [](C20_OnlySent) /\ [][C20_Step]_vars

\* a send failed while the table held the entry of an accepted request: the
\* table holds that entry and no other
C20_Witness ==
    /\ Len(fut) = 2
    /\ DOMAIN heads = {fut[1].mid}
    /\ \E c \in sent : c.id = fut[1].mid /\ c.ok
    /\ \E c \in sent : c.id = fut[2].mid /\ ~c.ok
\* C11: once registered(L,P) has returned a client, a further registered(L,P)
\* that the network answers returns MutationFailure{AccountExists}; whether
\* answered or not it returns no client and the stored session packet is the
\* one it was.
C11_Call(call) == boot'.n = boot.n + 1 /\ boot'.call = call

C11_Step ==
    C11_Call("registered") /\ hist.accounts > 0
    => /\ boot'.timely => boot'.res = Err("MutationFailure", "AccountExists")
       /\ ~boot'.res.ok
       /\ UNCHANGED client
       /\ network' = network
       /\ network[AccLoc] # Absent

C11_SecondRegistered == [][C11_Step]_vars

\* the second registered was refused while the packet of the first, updated
\* since, is stored
C11_Witness ==
    /\ boot.call = "registered"
    /\ boot.res = Err("MutationFailure", "AccountExists")
    /\ hist.accounts = 1
    /\ network[AccLoc].ver = 1

\* C12: a login(L,P) made before any registered(L,P) returned a client returns
\* an error and no client, GetFailure{NoSuchData} when the network answers; a
\* login(L,P) made after, that the network answers, returns a Registered
\* client.
C12_Step ==
    C11_Call("login")
    => IF hist.accounts = 0
       THEN /\ ~boot'.res.ok
            /\ boot'.timely => boot'.res = Err("GetFailure", "NoSuchData")
            /\ UNCHANGED client
       ELSE boot'.timely
            => /\ boot'.res.ok
               /\ clientType' = "Registered"
               /\ alive' /\ handles' = 1
               /\ acc(clientType').ok

C13_Step ==
    C11_Call("login") /\ boot'.res.ok
    => /\ account' = (IF hist.updates = 0 THEN NewAccount ELSE hist.acc)
       /\ hist.user # 0 => account'.user = hist.user
       /\ hist.config # 0 => account'.config = hist.config

C13_Inv ==
    alive /\ clientType = "Registered"
    => /\ hist.user # 0 => user_root_dir_id = hist.user
       /\ hist.config # 0 => config_root_dir_id = hist.config

C13_LoginRoundTrip == [](C13_Inv) /\ [][C13_Step]_vars

\* a client returned by login holds the two ids set in the session begun by
\* registered
C13_Witness ==
    /\ boot.call = "login" /\ boot.res.ok /\ alive
    /\ fut = <<>>
    /\ hist.user = 1 /\ hist.config = 2
    /\ user_root_dir_id = 1 /\ config_root_dir_id = 2

\* C16: registered stores the session packet at version 0; the packet
\* update_session_packet posts has the version of the packet it fetched plus
\* one; the version the network holds only changes by an accepted update,
\* which adds one to it.
C16_Created ==
    C11_Call("registered") /\ boot'.res.ok
    => network[AccLoc] = Absent /\ network'[AccLoc].ver = 0

C16_Posted ==
    \A r \in 1..Len(fut) :
        /\ Len(fut') = Len(fut)
        /\ fut[r].api \in SetRootApis /\ fut[r].stage = "get" /\ fut'[r].stage = "post"
        => \E c \in sent' \ sent :
              /\ c.verb = "post"
              /\ c.dst = NaeManager(AccLoc)
              /\ c.data.name = AccLoc
              /\ c.data.ver = fut[r].ev.res.val.ver + 1
              /\ c.data.sig = Maid

C16_Held ==
    network[AccLoc] # Absent
    => /\ network'[AccLoc] # Absent
       /\ \/ network'[AccLoc] = network[AccLoc] /\ hist'.updates = hist.updates
          \/ /\ network'[AccLoc].ver = network[AccLoc].ver + 1
             /\ hist'.updates = hist.updates + 1

C16_Counted == network[AccLoc] # Absent => network[AccLoc].ver = hist.updates

C16_VersionMonotonic == [](C16_Counted) /\ [][C16_Created /\ C16_Posted /\ C16_Held]_vars

\* two updates were accepted, one after the other
C16_Witness ==
    /\ network[AccLoc] # Absent
    /\ network[AccLoc].ver = 2
    /\ hist.user # 0 /\ hist.config # 0

\* C17: on a Registered client set_user_root_dir_id (set_config_root_dir_id)
\* writes the id and starts update_session_packet, with its GET, only if the
\* slot was empty; if it was not, the call fails RootDirectoryAlreadyExists,
\* the Account is as it was and nothing is sent.
C17_Step ==
    \A api \in SetRootApis :
        Called(api) /\ clientType = "Registered"
        => IF account[Slot(api)] = 0
           THEN /\ account'[Slot(api)] # 0
                /\ \A x \in {"user", "config"} \ {Slot(api)} : account'[x] = account[x]
                /\ NewFut.stage = "get"
                /\ \E c \in sent' \ sent :
                      c.verb = "get" /\ c.data = SessionPacketId /\ c.id = NewFut.mid
           ELSE /\ NewFut.st = "ready"
                /\ Adapt(NewFut.stage, NewFut.ev) = Err("RootDirectoryAlreadyExists", "")
                /\ account' = account
                /\ sent' = sent /\ heads' = heads /\ stats' = stats

C17_OnlyAccountSteps ==
    account' # account
    => \/ \E api \in SetRootApis : Called(api)
       \/ \E call \in {"registered", "login"} : C11_Call(call)
       \/ ~alive'

C17_SetRootOnlyIfEmpty == [][C17_Step /\ C17_OnlyAccountSteps]_vars

\* the slot held 1 and a call with another id failed: the slot still holds 1
C17_Witness ==
    /\ Len(fut) = 2
    /\ fut[1].api = "set_user_root_dir_id" /\ fut[1].stage # "none"
    /\ fut[2].api = "set_user_root_dir_id" /\ fut[2].stage = "none"
    /\ fut[2].st = "done" /\ fut[2].res = Err("RootDirectoryAlreadyExists", "")
    /\ user_root_dir_id = 1

\* C14: put_recover of a Structured datum at an address that holds a tombstone
\* of version v written by the caller: the answer to the initial put is
\* MutationFailure InvalidSuccessor or DataExists; the future then sends a GET
\* of the datum's identifier; with the tombstone fetched it puts a Structured
\* of version v + 1 with the caller's payload and owner keys, signed with
\* sign_sk; once that put is accepted the address holds it, and the future
\* resolves with its version, which is the version the network shows.
C14_Tomb(old) ==
    /\ old.kind = "Structured"
    /\ old.data = NoBytes
    /\ old.owners = {}
    /\ Maid \in old.prev

C14_Mine(f) == f.api = "put_recover" /\ f.arg.data.kind = "Structured"

C14_Moved(r, stage, st) ==
    /\ Len(fut') = Len(fut)
    /\ C14_Mine(fut[r])
    /\ fut[r].stage = stage
    /\ fut[r].st = st
    /\ fut'[r] # fut[r]

C14_Refused ==
    \A r \in 1..Len(fut) :
        C14_Moved(r, "put", "pending") /\ C14_Tomb(network[fut[r].arg.data.name])
        => /\ Adapt("put", fut'[r].ev) \in {Err("MutationFailure", "InvalidSuccessor"),
                                             Err("MutationFailure", "DataExists")}
           /\ network' = network

C14_Fetch ==
    \A r \in 1..Len(fut) :
        /\ C14_Moved(r, "put", "ready")
        /\ Adapt("put", fut[r].ev) \in {Err("MutationFailure", "InvalidSuccessor"),
                                         Err("MutationFailure", "DataExists")}
        => /\ fut'[r].stage = "get"
           /\ \E c \in sent' \ sent :
                 /\ c.verb = "get"
                 /\ c.data = identifier(fut[r].arg.data)
                 /\ c.dst = NaeManager(fut[r].arg.data.name)
                 /\ c.id = fut'[r].mid

C14_Reput ==
    \A r \in 1..Len(fut) :
        /\ C14_Moved(r, "get", "ready")
        /\ Adapt("get", fut[r].ev).ok
        /\ C14_Tomb(Adapt("get", fut[r].ev).val)
        => LET old == Adapt("get", fut[r].ev).val
               new == fut[r].arg.data
           IN  /\ fut'[r].stage = "reput"
               /\ \E c \in sent' \ sent :
                     /\ c.verb = "put"
                     /\ c.dst = CmAddr
                     /\ c.id = fut'[r].mid
                     /\ c.data = [kind |-> "Structured", name |-> new.name,
                                  ver |-> old.ver + 1, data |-> new.data,
                                  owners |-> new.owners, prev |-> new.prev,
                                  sig |-> fut[r].arg.sign_sk]

C14_Accepted ==
    \A r \in 1..Len(fut) :
        /\ C14_Moved(r, "reput", "pending")
        /\ Adapt("reput", fut'[r].ev).ok
        => /\ network'[fut[r].arg.data.name] = RequestOf(fut[r].mid).data
           /\ RequestOf(fut[r].mid).data.ver = network[fut[r].arg.data.name].ver + 1

C14_Resolved ==
    \A r \in 1..Len(fut) :
        /\ C14_Moved(r, "reput", "ready")
        /\ Adapt("reput", fut[r].ev).ok
        => /\ fut'[r].st = "done"
           /\ fut'[r].res = Ok(Version(RequestOf(fut[r].mid).data.ver))
           /\ sent' = sent

C14_Visible ==
    \A r \in 1..Len(fut) :
        C14_Mine(fut[r]) /\ fut[r].stage = "reput" /\ fut[r].st = "done" /\ fut[r].res.ok
        => /\ network[fut[r].arg.data.name].ver = fut[r].res.val.ver
           /\ network[fut[r].arg.data.name].data = fut[r].arg.data.data
           /\ network[fut[r].arg.data.name].owners = fut[r].arg.data.owners

C14_PutRecoverReclaims ==
    /\ [](C14_Visible)
    /\ [][C14_Refused /\ C14_Fetch /\ C14_Reput /\ C14_Accepted /\ C14_Resolved]_vars

\* put of version 0, delete of version 1, then put_recover of version 0
\* resolved 2 and the address holds version 2 with the caller's payload
C14_Witness ==
    /\ \E c \in sent : c.id = 1 /\ c.verb = "put" /\ c.data = NetPut
    /\ \E c \in sent : c.id = 2 /\ c.verb = "delete" /\ c.data = NetDelete
    /\ \E c \in sent : c.id = 3 /\ c.verb = "put" /\ c.data = NetRecover
    /\ \E r \in 1..Len(fut) :
          /\ C14_Mine(fut[r])
          /\ fut[r].st = "done"
          /\ fut[r].res = Ok(Version(2))
    /\ network[DataName] = StructuredData(DataName, 2, Bytes(Payload), {Maid}, {}, Maid)

\* C21: in registered, once the PUT of the session packet is sent, the first
\* event received decides: PutSuccess with the id of the PUT gives a Registered
\* client; PutFailure with that id gives MutationFailure with the parsed
\* reason; a timeout, another event or a response with another id gives
\* OperationAborted. Whenever registered fails, no client is returned and the
\* routing event loop thread is not spawned.
C21_Arms ==
    C11_Call("registered") /\ boot'.sent
    => LET x == boot'.ev
       IN  CASE x.resp.r = "PutSuccess" /\ x.id = BootId ->
                    /\ boot'.res.ok
                    /\ alive' /\ handles' = 1
                    /\ clientType' = "Registered"
                    /\ boot'.joiner
             [] x.resp.r = "PutFailure" /\ x.id = BootId ->
                    /\ boot'.res.e = "MutationFailure"
                    /\ boot'.res.reason = (IF x.resp.ind \in MutationErrors THEN x.resp.ind
                                           ELSE "NetworkOther")
             [] OTHER -> boot'.res = Err("OperationAborted", "")

C21_Failure ==
    C11_Call("registered") /\ ~boot'.res.ok
    => /\ UNCHANGED client
       /\ ~alive' /\ handles' = 0
       /\ ~boot'.joiner

C21_RegisteredArms == [][C21_Arms /\ C21_Failure]_vars

\* registered was aborted by a PutSuccess that carried another id
C21_Witness ==
    /\ boot.call = "registered" /\ boot.sent
    /\ boot.ev.resp.r = "PutSuccess" /\ boot.ev.id # BootId
    /\ boot.res = Err("OperationAborted", "")
    /\ ~alive

\* C22: put_recover hands on unchanged every failure of its initial put other
\* than MutationFailure InvalidSuccessor and MutationFailure DataExists, and
\* then sends no GET and no second put; when the initial put succeeds it
\* resolves with the version the datum declares (0 for data that has none),
\* the put having been its only request.
C22_Polled(r, stage) ==
    /\ Len(fut') = Len(fut)
    /\ fut[r].api = "put_recover"
    /\ fut[r].stage = stage
    /\ fut[r].st = "ready"
    /\ fut'[r].st \in {"pending", "done"}

C22_Intercepted(res) ==
    /\ ~res.ok
    /\ res.e = "MutationFailure"
    /\ res.reason \in {"InvalidSuccessor", "DataExists"}

C22_Declared(d) == IF d.kind = "Immutable" THEN 0 ELSE d.ver

C22_Quiet == sent' = sent /\ stats' = stats

C22_Step ==
    \A r \in 1..Len(fut) :
        C22_Polled(r, "put")
        => LET res == Adapt("put", fut[r].ev)
           IN  /\ ~res.ok /\ ~C22_Intercepted(res)
                  => fut'[r].st = "done" /\ fut'[r].res = res /\ C22_Quiet
               /\ res.ok
                  => /\ fut'[r].st = "done"
                     /\ fut'[r].res = Ok(Version(C22_Declared(fut[r].arg.data)))
                     /\ fut'[r].stage = "put"
                     /\ Cardinality({c \in sent' : c.id = fut[r].mid}) = 1
                     /\ C22_Quiet

C22_PutRecoverPropagates == [][C22_Step]_vars

\* a put_recover of version 1 resolved 1 after its put, and another failed
\* with the LowBalance of its put; two requests were sent in all
C22_Witness ==
    /\ Len(fut) = 2
    /\ \A r \in 1..2 : fut[r].api = "put_recover" /\ fut[r].stage = "put" /\ fut[r].st = "done"
    /\ fut[1].res = Ok(Version(1))
    /\ fut[2].res = Err("MutationFailure", "LowBalance")
    /\ Cardinality(sent) = 2

\* C23: when the initial put failed with InvalidSuccessor or DataExists and
\* the GET returns data of the kind being put (Structured, PrivAppendable,
\* PubAppendable), not deleted, whose owner keys are those of the new datum,
\* put_recover resolves Ok with the version the caller declared and sends no
\* further put, whatever version the data fetched has.
C23_Deleted(old) == old.kind = "Structured" /\ old.data = NoBytes /\ old.owners = {}

C23_Versioned == {"Structured", "PrivAppendable", "PubAppendable"}

C23_Step ==
    \A r \in 1..Len(fut) :
        C22_Polled(r, "get") /\ Adapt("get", fut[r].ev).ok
        => LET old == Adapt("get", fut[r].ev).val
               new == fut[r].arg.data
           IN  /\ C22_Intercepted(fut[r].arg.put_err)
               /\ /\ old.kind = new.kind
                  /\ new.kind \in C23_Versioned
                  /\ ~C23_Deleted(old)
                  /\ old.owners = new.owners
                  => /\ fut'[r].st = "done"
                     /\ fut'[r].res = Ok(Version(new.ver))
                     /\ C22_Quiet

C24_Kept ==
    \A r \in 1..Len(fut) :
        C22_Polled(r, "put") /\ C22_Intercepted(Adapt("put", fut[r].ev))
           /\ fut[r].arg.data.kind # "Immutable"
        => /\ fut'[r].stage = "get"
           /\ fut'[r].arg.put_err = Adapt("put", fut[r].ev)
           /\ fut'[r].st = "done" => fut'[r].res = Adapt("put", fut[r].ev)
           /\ \A c \in sent' \ sent : c.verb = "get"

C24_Step ==
    \A r \in 1..Len(fut) :
        C22_Polled(r, "get")
        => LET res == Adapt("get", fut[r].ev)
               new == fut[r].arg.data
           IN  \/ ~res.ok
               \/ res.val.kind # new.kind
               \/ ~C23_Deleted(res.val) /\ res.val.owners # new.owners
               => /\ fut'[r].st = "done"
                  /\ fut'[r].res = fut[r].arg.put_err
                  /\ C22_Intercepted(fut'[r].res)
                  /\ C22_Quiet

C24_OriginalError == [][C24_Kept /\ C24_Step]_vars

\* a put_recover whose put failed DataExists resolved with DataExists after
\* its GET, and one whose put failed InvalidSuccessor with InvalidSuccessor
C24_Witness ==
    /\ Len(fut) = 2
    /\ \A r \in 1..2 : fut[r].api = "put_recover" /\ fut[r].stage = "get" /\ fut[r].st = "done"
    /\ fut[1].res = Err("MutationFailure", "DataExists")
    /\ fut[2].res = Err("MutationFailure", "InvalidSuccessor")
    /\ Cardinality(sent) = 4

\* C25: update_session_packet first sends the GET of Structured(acc_loc,
\* SESSION_PACKET); the POST, of a Structured at acc_loc to NaeManager(acc_loc),
\* is sent only when that GET has resolved Ok with Structured data. If the
\* GET failed, its error is the result and no POST is sent; if it returned
\* other data, the result is ReceivedUnexpectedData and no POST is sent.
C25_Polled(r) ==
    /\ Len(fut') = Len(fut)
    /\ fut[r].api \in SetRootApis
    /\ fut[r].stage = "get"
    /\ fut[r].st = "ready"
    /\ fut'[r].st \in {"pending", "done"}

C25_First ==
    \A api \in SetRootApis :
        Called(api) /\ NewFut.stage # "none"
        => /\ NewFut.stage = "get"
           /\ Cardinality(sent' \ sent) = 1
           /\ \A c \in sent' \ sent :
                 /\ c.verb = "get"
                 /\ c.data = Data("Structured", AccLoc, 0)
                 /\ c.dst = NaeManager(AccLoc)

C25_Then ==
    \A r \in 1..Len(fut) :
        C25_Polled(r)
        => LET res == Adapt("get", fut[r].ev)
           IN  CASE ~res.ok ->
                        fut'[r].st = "done" /\ fut'[r].res = res /\ sent' = sent
                 [] res.ok /\ res.val.kind # "Structured" ->
                        /\ fut'[r].st = "done"
                        /\ fut'[r].res = Err("ReceivedUnexpectedData", "")
                        /\ sent' = sent
                 [] OTHER ->
                        /\ fut'[r].stage = "post"
                        /\ Cardinality(sent' \ sent) = 1
                        /\ \A c \in sent' \ sent :
                              /\ c.verb = "post"
                              /\ c.dst = NaeManager(AccLoc)
                              /\ c.data.kind = "Structured"
                              /\ c.data.name = AccLoc
                              /\ c.data.ver = res.val.ver + 1
                              /\ c.data.data = Encrypt(account)

C25_OnlyThen ==
    \A c \in sent' \ sent :
        c.verb = "post" /\ ~Called("post")
        => \E r \in 1..Len(fut) :
              /\ C25_Polled(r)
              /\ Adapt("get", fut[r].ev).ok
              /\ Adapt("get", fut[r].ev).val.kind = "Structured"

C25_GetThenPost == [][C25_First /\ C25_Then /\ C25_OnlyThen]_vars

\* one update failed ReceivedUnexpectedData after its GET returned immutable
\* data, another sent its POST after its GET returned the packet: two GETs
\* and one POST were sent
C25_Witness ==
    /\ Len(fut) = 2
    /\ fut[1].api = "set_user_root_dir_id" /\ fut[1].stage = "get" /\ fut[1].st = "done"
    /\ fut[1].res = Err("ReceivedUnexpectedData", "")
    /\ fut[2].api = "set_config_root_dir_id" /\ fut[2].stage = "post"
    /\ Cardinality({c \in sent : c.verb = "get"}) = 2
    /\ Cardinality({c \in sent : c.verb = "post"}) = 1

\* C26: a response whose MessageId has no entry in heads, an id never used or
\* one already drained, is discarded: remove_head finds nothing and leaves
\* the table as it is, no future is completed or resolved, and the cache and
\* the statistics are unchanged.
C26_None ==
    \A id \in 0..nextId : id \notin DOMAIN heads => remove_head(heads, id) = heads

C26_Step ==
    discarded' = discarded + 1
    => /\ heads' = heads
       /\ fut' = fut
       /\ cache' = cache
       /\ stats' = stats
       /\ removed' = removed
       /\ UNCHANGED <<clientType, account, nextId, sent, handles, alive, useOrder>>

C26_UnknownIdDiscarded == [](C26_None) /\ [][C26_Step]_vars

\* a response was discarded while one request had been answered and another
\* was waiting for its response, which it still is
C26_Witness ==
    /\ discarded = 1
    /\ Len(fut) = 2
    /\ fut[1].by # 0
    /\ fut[2].st = "pending" /\ fut[2].mid \in DOMAIN heads
    /\ cache = <<>>

\* C27: when the caller drops a returned future before its response has
\* arrived, the entry of its MessageId stays in heads until the response
\* drains it or the client is torn down; the response, when it arrives, takes
\* the entry out and changes nothing else: no future, of this or of another
\* request, and no other entry.
C27_Stale(id) == id \in DOMAIN heads /\ fut[heads[id]].st = "dropped"

C27_Drop ==
    \A r \in 1..Len(fut) :
        /\ Len(fut') = Len(fut)
        /\ fut[r].st = "pending"
        /\ fut'[r].st = "dropped"
        /\ alive'
        => heads' = heads /\ fut[r].mid \in DOMAIN heads'

C27_Stays ==
    \A id \in DOMAIN heads :
        C27_Stale(id) /\ id \notin DOMAIN heads'
        => /\ removed'[id] = removed[id] + 1
           /\ \/ ~alive' /\ heads' = EmptyHeads
              \/ /\ alive'
                 /\ heads' = [i \in DOMAIN heads \ {id} |-> heads[i]]
                 /\ fut' = fut
                 /\ discarded' = discarded
                 /\ UNCHANGED <<cache, stats, sent, nextId, account, handles>>

C27_Cancellation == [][C27_Drop /\ C27_Stays]_vars

\* the response to a dropped future's request arrived and drained its entry;
\* the other request, still waiting, kept its own
C27_Witness ==
    /\ Len(fut) = 2
    /\ fut[1].st = "dropped" /\ fut[1].by = 0
    /\ fut[1].mid \in DOMAIN removed
    /\ fut[1].mid \notin DOMAIN heads /\ removed[fut[1].mid] = 1
    /\ fut[2].st = "pending" /\ fut[2].mid \in DOMAIN heads
    /\ alive

\* C28: an entry is inserted into the cache only when the future of a get of
\* an Immutable identifier that missed the cache resolves Ok with
\* Data::Immutable, and the entry is that data under its own name; any other
\* change of the cache is the refresh of an entry by a hit, which inserts
\* nothing; a get that fails (send error, GetFailure) leaves the cache as it
\* is.
C28_Entries(c) == {c[i] : i \in 1..Len(c)}

C28_Insertion(r) ==
    /\ Len(fut') = Len(fut)
    /\ fut[r].api = "get"
    /\ fut[r].arg.kind = "Immutable"
    /\ fut[r].mid # 0
    /\ fut[r].st = "ready"
    /\ fut'[r].st = "done"
    /\ fut'[r].res.ok
    /\ fut'[r].res.val.kind = "Immutable"
    /\ C28_Entries(cache') \ C28_Entries(cache) \subseteq {fut'[r].res.val}
    /\ cache'[Len(cache')] = fut'[r].res.val
    /\ \A i \in 1..Len(cache') :
          cache'[i].name = fut'[r].res.val.name => cache'[i] = fut'[r].res.val

C28_Hit ==
    /\ Called("get")
    /\ NewFut.mid = 0
    /\ NewFut.arg.kind = "Immutable"
    /\ C28_Entries(cache') = C28_Entries(cache)
    /\ sent' = sent

C28_Step == cache' # cache => C28_Hit \/ \E r \in 1..Len(fut) : C28_Insertion(r)

C28_Failed ==
    \A r \in 1..Len(fut) :
        /\ Len(fut') = Len(fut)
        /\ fut[r].api = "get"
        /\ fut[r].st = "ready"
        /\ fut'[r].st = "done"
        /\ ~fut'[r].res.ok
        => cache' = cache

C28_CacheInsertion == [][C28_Step /\ C28_Failed]_vars

\* a get of name 1 resolved with immutable data named 2, which is in the
\* cache under 2; a get that failed NoSuchData put nothing there
C28_Witness ==
    /\ Len(fut) = 2
    /\ fut[1].api = "get" /\ fut[1].arg.name = 1 /\ fut[1].st = "done"
    /\ fut[1].res.ok /\ fut[1].res.val = Data("Immutable", 2, 0)
    /\ fut[2].api = "get" /\ fut[2].arg.kind = "Immutable" /\ fut[2].st = "done"
    /\ fut[2].res = Err("GetFailure", "NoSuchData")
    /\ cache = <<Data("Immutable", 2, 0)>>

\* C29: the future of get, put, post, delete, append and get_account_info
\* yields ReceivedUnexpectedEvent when its handle was completed with a
\* CoreEvent of another kind than the one of its verb (Get for get, Mutation
\* for put, post, delete and append, AccountInfo for get_account_info), the
\* result the event carries when the kind is that of the verb, and
\* OperationAborted when the handle was dropped without being completed.
C29_Kind(api) ==
    CASE api = "get" -> "Get"
      [] api = "get_account_info" -> "AccountInfo"
      [] api \in {"put", "post", "delete", "append"} -> "Mutation"

C29_Step ==
    \A r \in 1..Len(fut) :
        /\ Len(fut') = Len(fut)
        /\ fut[r].api \in {"get", "put", "post", "delete", "append", "get_account_info"}
        /\ fut[r].st = "ready"
        /\ fut'[r].st = "done"
        => LET ev == fut[r].ev
           IN  CASE ev.k = "Canceled" -> fut'[r].res = Err("OperationAborted", "")
                 [] ev.k \in {"Get", "Mutation", "AccountInfo"} /\ ev.k # C29_Kind(fut[r].api) ->
                        fut'[r].res = Err("ReceivedUnexpectedEvent", "")
                 [] ev.k = C29_Kind(fut[r].api) -> fut'[r].res = ev.res
                 [] OTHER -> TRUE

C29_Canceled ==
    \A r \in 1..Len(fut) :
        fut[r].ev.k = "Canceled"
        => /\ fut[r].st = "ready"
           /\ fut[r].by = 0
           /\ fut[r].mid \notin DOMAIN heads

C29_Adapters == [](C29_Canceled) /\ [][C29_Step]_vars

\* a get answered by a response that is no answer to a get resolved
\* ReceivedUnexpectedEvent, and a post whose handle went with the table
\* resolved OperationAborted
C29_Witness ==
    /\ Len(fut) = 2
    /\ fut[1].api = "get" /\ fut[1].by # 0 /\ fut[1].st = "done"
    /\ fut[1].res = Err("ReceivedUnexpectedEvent", "")
    /\ fut[2].api = "post" /\ fut[2].by = 0 /\ fut[2].st = "done"
    /\ fut[2].res = Err("OperationAborted", "")

\* C30: when insert_head is called with a MessageId that has an entry, the
\* entry is replaced by the new handle and the older handle is dropped: the
\* older request's future yields OperationAborted, the table has one entry for
\* the id, which is the newer request's, and a later response for the id
\* completes the newer request's future and no other.
C30_Replaces(id) == id \in DOMAIN heads /\ id \in DOMAIN heads' /\ heads'[id] # heads[id]

C30_Insert ==
    \A id \in DOMAIN heads :
        C30_Replaces(id)
        => LET old == heads[id]
               new == heads'[id]
           IN  /\ fut'[new].mid = id /\ fut'[new].st = "pending"
               /\ fut[old].st = "pending"
                  => fut'[old].st = "ready" /\ fut'[old].ev.k = "Canceled"
               /\ DOMAIN heads' = DOMAIN heads
               /\ \A i \in DOMAIN heads \ {id} : heads'[i] = heads[i]
               /\ Cardinality({r \in 1..Len(fut') : fut'[r].mid = id /\ fut'[r].st = "pending"}) = 1

C30_Aborted ==
    \A r \in 1..Len(fut) :
        /\ Len(fut') = Len(fut)
        /\ fut[r].st = "ready" /\ fut[r].ev.k = "Canceled"
        /\ fut'[r].st = "done"
        => fut'[r].res = Err("OperationAborted", "")

C30_Response ==
    \A id \in DOMAIN heads :
        id \notin DOMAIN heads' /\ alive'
        => /\ Len(fut') = Len(fut)
           /\ \A r \in 1..Len(fut) : r # heads[id] => fut'[r] = fut[r]
           /\ fut[heads[id]].st = "pending"
              => fut'[heads[id]].st = "ready" /\ fut'[heads[id]].by = id

C30_OneEntry ==
    \A id \in DOMAIN heads :
        /\ fut[heads[id]].mid = id
        /\ \A r \in 1..Len(fut) : fut[r].st = "pending" /\ fut[r].mid = id => r = heads[id]

C30_DuplicateInsert == [](C30_OneEntry) /\ [][C30_Insert /\ C30_Aborted /\ C30_Response]_vars

\* two gets were filed under the same id: the older resolved OperationAborted
\* while the client lives, the newer was completed by the response for the id
C30_Witness ==
    /\ alive
    /\ Len(fut) = 2
    /\ fut[1].mid = fut[2].mid /\ fut[1].mid # 0
    /\ fut[1].st = "done" /\ fut[1].res = Err("OperationAborted", "") /\ fut[1].by = 0
    /\ fut[2].st = "done" /\ fut[2].by = fut[2].mid /\ fut[2].res.ok
    /\ heads = EmptyHeads

\* C31: get looks into the cache at the call and the cache is filled when a
\* future resolves, so a get of Immutable(X) called while X is not in the
\* cache, an earlier get of X still unresolved or not, sends a GET under a
\* fresh MessageId and files its own entry in heads; the futures of two such
\* gets are each completed by the response that carries their own id.
C31_Miss ==
    /\ Called("get")
    /\ NewFut.arg.kind = "Immutable"
    /\ NewFut.arg.name \notin CacheNames(cache)

C31_Call ==
    C31_Miss
    => /\ NewFut.mid # 0
       /\ NewFut.mid \notin {c.id : c \in sent}
       /\ NewFut.mid \notin DOMAIN heads
       /\ Cardinality(sent' \ sent) = 1
       /\ \A c \in sent' \ sent :
             c.id = NewFut.mid /\ c.verb = "get" /\ c.data = NewFut.arg
       /\ NewFut.st = "pending"
          => /\ DOMAIN heads' = DOMAIN heads \cup {NewFut.mid}
             /\ heads'[NewFut.mid] = Len(fut')
             /\ \A i \in DOMAIN heads : heads'[i] = heads[i]
       /\ \A r \in 1..Len(fut) : fut'[r] = fut[r]
       /\ cache' = cache

C31_Hit ==
    /\ Called("get")
    /\ NewFut.arg.kind = "Immutable"
    /\ NewFut.arg.name \in CacheNames(cache)
    => /\ NewFut.mid = 0
       /\ sent' = sent
       /\ heads' = heads
       /\ NewFut.ev = CoreEvent("Get", Ok(CacheLookup(cache, NewFut.arg.name)))

C31_Fill ==
    cache' # cache
    => \/ Called("get")
       \/ \E r \in 1..Len(fut) :
             Len(fut') = Len(fut) /\ fut[r].st = "ready" /\ fut'[r].st = "done"

C31_Completed ==
    \A r \in 1..Len(fut) :
        /\ Len(fut') = Len(fut)
        /\ fut[r].api = "get"
        /\ fut[r].st = "pending"
        /\ fut'[r].st = "ready"
        /\ alive'
        => /\ fut'[r].by = fut[r].mid
           /\ fut[r].mid \notin DOMAIN heads'
           /\ \A q \in 1..Len(fut) : q # r => fut'[q] = fut[q]

C31_Own ==
    \A r \in 1..Len(fut) :
        fut[r].api = "get" /\ fut[r].st = "pending"
        => /\ fut[r].mid \in DOMAIN heads
           /\ heads[fut[r].mid] = r
           /\ \A q \in 1..Len(fut) : q # r => fut[q].mid # fut[r].mid

C31_ConcurrentGets ==
    [](C31_Own) /\ [][C31_Call /\ C31_Hit /\ C31_Fill /\ C31_Completed]_vars

\* two gets of Immutable(1) each sent a GET and each resolved with that data,
\* completed by the response that carried its own id: had the second been
\* called after the first resolved, it would have been served by the cache
C31_Witness ==
    /\ Len(fut) = 2
    /\ \A r \in 1..2 :
          /\ fut[r].api = "get" /\ fut[r].arg = Data("Immutable", 1, 0)
          /\ fut[r].mid # 0 /\ fut[r].by = fut[r].mid
          /\ fut[r].st = "done" /\ fut[r].res = Ok(Data("Immutable", 1, 0))
    /\ fut[1].mid # fut[2].mid
    /\ Cardinality({c \in sent : c.verb = "get" /\ c.ok}) = 2

\* C32: set_user_root_dir_id / set_config_root_dir_id write the slot of the
\* in-memory Account at the call, before the session packet update has done
\* anything, and the slot is never written back: when the update fails (its
\* GET or its POST), user_root_dir_id() / config_root_dir_id() still return
\* the new value although the stored packet is unchanged, and a further call,
\* with any value, fails RootDirectoryAlreadyExists and sends nothing.
C32_Written ==
    \A api \in SetRootApis :
        Called(api) /\ clientType = "Registered" /\ account[Slot(api)] = 0
        => /\ account'[Slot(api)] \in Dirs
           /\ NewFut.st # "done"
           /\ network' = network

C32_Kept ==
    \A slot \in {"user", "config"} :
        account[slot] # 0 /\ alive' => account'[slot] = account[slot]

C32_Failed ==
    \A r \in 1..Len(fut) :
        /\ Len(fut') = Len(fut)
        /\ fut[r].api \in SetRootApis
        /\ fut[r].st = "ready" /\ fut'[r].st = "done" /\ ~fut'[r].res.ok
        => /\ account' = account
           /\ network' = network
           /\ fut[r].stage # "none" => account[Slot(fut[r].api)] # 0

C32_Repeated ==
    \A api \in SetRootApis :
        Called(api) /\ clientType = "Registered" /\ account[Slot(api)] # 0
        => /\ NewFut.ev = CoreEvent("Failed", Err("RootDirectoryAlreadyExists", ""))
           /\ sent' = sent
           /\ account' = account

C32_NoRollback == [][C32_Written /\ C32_Kept /\ C32_Failed /\ C32_Repeated]_vars

\* the update of set_user_root_dir_id(1) failed and the stored packet is the
\* one registered made, yet user_root_dir_id() is 1 and set_user_root_dir_id(2)
\* failed RootDirectoryAlreadyExists
C32_Witness ==
    /\ alive
    /\ Len(fut) = 2
    /\ fut[1].api = "set_user_root_dir_id" /\ fut[1].stage # "none"
    /\ fut[1].st = "done" /\ ~fut[1].res.ok
    /\ fut[2].api = "set_user_root_dir_id" /\ fut[2].stage = "none"
    /\ fut[2].st = "done" /\ fut[2].res = Err("RootDirectoryAlreadyExists", "")
    /\ user_root_dir_id = 1
    /\ network[AccLoc] = SessionPacket(0, NewAccount)
    /\ hist.updates = 0

\* C33, as stated: when set_user_root_dir_id and set_config_root_dir_id were
\* both called before the GET response of either was delivered, the two
\* packets posted carry the same version and the two futures do not both
\* succeed.
C33_Racing ==
    /\ Len(fut) = 2
    /\ \A r \in 1..2 : fut[r].api \in SetRootApis /\ fut[r].stage \in {"get", "post"}

C33_Posted(r) ==
    /\ fut[r].stage = "post"
    /\ \E c \in sent : c.id = fut[r].mid /\ c.verb = "post" /\ c.ok

C33_Ver(r) == RequestOf(fut[r].mid).data.ver

C33_Succeeded(r) == fut[r].st = "done" /\ fut[r].res.ok

C33_Original ==
    C33_Racing
    => /\ C33_Posted(1) /\ C33_Posted(2) => C33_Ver(1) = C33_Ver(2)
       /\ ~(C33_Succeeded(1) /\ C33_Succeeded(2))

\* C33, amended: the two updates are not serialised. Each call sends its GET
\* at the call, whatever the other call is waiting for; the version a GET
\* fetches is the one the network holds when it answers, and the packet posted
\* carries that version + 1. When both packets carry the same version, at most
\* one of the two futures succeeds, and a future whose POST was answered and
\* that did not succeed failed with MutationFailure(InvalidSuccessor).
C33_Sends ==
    \A api \in SetRootApis :
        Called(api) /\ account[Slot(api)] = 0 /\ NewFut.st = "pending"
        => /\ NewFut.stage = "get"
           /\ \E c \in sent' \ sent :
                 /\ sent' = sent \cup {c}
                 /\ c.id = NewFut.mid /\ c.verb = "get" /\ c.ok
                 /\ c.data = SessionPacketId
           /\ \A r \in 1..Len(fut) : fut'[r] = fut[r]

C33_Fetches ==
    \A r \in 1..Len(fut) :
        /\ Len(fut') = Len(fut)
        /\ fut[r].api \in SetRootApis /\ fut[r].stage = "get"
        /\ fut[r].st = "pending" /\ fut'[r].st = "ready"
        => /\ fut'[r].ev = CoreEvent("Get", Ok(network[AccLoc]))
           /\ network' = network

C33_Builds ==
    \A r \in 1..Len(fut) :
        /\ Len(fut') = Len(fut)
        /\ fut[r].api \in SetRootApis /\ fut[r].stage = "get" /\ fut'[r].stage = "post"
        => \E c \in sent' \ sent :
              /\ c.id = fut'[r].mid /\ c.verb = "post"
              /\ c.data.ver = fut[r].ev.res.val.ver + 1
              /\ Decrypt(c.data.data) = account

C33_AtMostOne ==
    C33_Racing /\ C33_Posted(1) /\ C33_Posted(2) /\ C33_Ver(1) = C33_Ver(2)
    => /\ ~(C33_Succeeded(1) /\ C33_Succeeded(2))
       /\ \A r \in 1..2 :
             fut[r].st = "done" /\ fut[r].by = fut[r].mid /\ ~fut[r].res.ok
             => fut[r].res = Err("MutationFailure", "InvalidSuccessor")

C33_NotSerialised ==
    [](C33_AtMostOne) /\ [][C33_Sends /\ C33_Fetches /\ C33_Builds]_vars

\* both GETs fetched version 0, both packets posted carry version 1, one call
\* succeeded and the other failed with InvalidSuccessor
C33_Witness ==
    /\ C33_Racing /\ C33_Posted(1) /\ C33_Posted(2)
    /\ fut[1].api # fut[2].api
    /\ C33_Ver(1) = 1 /\ C33_Ver(2) = 1
    /\ \A r \in 1..2 : fut[r].st = "done"
    /\ \E r \in 1..2 :
          /\ C33_Succeeded(r)
          /\ fut[3 - r].res = Err("MutationFailure", "InvalidSuccessor")
    /\ network[AccLoc].ver = 1

\* C34: the recovery protocols do not retry without bound. With every request
\* answered in the end, a put_recover call sends at most three requests, a
\* put, a get and a put in this order, and then resolves; a delete_recover
\* call sends exactly one; an update_session_packet sends at most two, a get
\* and a post; and when the reclaim put of put_recover fails, the future
\* resolves with that failure and nothing more is sent.
C34_Rank(f) ==
    CASE f.api = "put_recover" ->
            (CASE f.stage = "put" -> 1 [] f.stage = "get" -> 2 [] f.stage = "reput" -> 3)
      [] f.api = "delete_recover" -> 1
      [] f.api \in SetRootApis ->
            (CASE f.stage = "none" -> 0 [] f.stage = "get" -> 1 [] f.stage = "post" -> 2)

\* the verb of the request a chain sends on reaching a rank
C34_Verb(f) ==
    CASE f.api = "put_recover" -> (IF C34_Rank(f) = 2 THEN "get" ELSE "put")
      [] f.api = "delete_recover" -> "delete"
      [] f.api \in SetRootApis -> (IF C34_Rank(f) = 2 THEN "post" ELSE "get")

\* the requests a call has sent when its chain is at this stage
C34_Requests(f) == IF C34_Rank(f) = 1 /\ f.mid = 0 THEN 0 ELSE C34_Rank(f)

\* the requests the first n calls have sent
RECURSIVE C34_Sum(_)
C34_Sum(n) == IF n = 0 THEN 0 ELSE C34_Requests(fut[n]) + C34_Sum(n - 1)

C34_Total == C34_Sum(Len(fut))

C34_Count ==
    /\ Cardinality(sent) = C34_Total
    /\ \A r \in 1..Len(fut) :
          /\ fut[r].api = "put_recover" => C34_Requests(fut[r]) <= 3
          /\ fut[r].api = "delete_recover" => C34_Requests(fut[r]) = 1
          /\ fut[r].api \in SetRootApis => C34_Requests(fut[r]) <= 2

C34_Advance ==
    \A r \in 1..Len(fut) :
        /\ fut[r].st = "done" => fut'[r] = fut[r]
        /\ fut'[r].stage # fut[r].stage
           => /\ C34_Rank(fut'[r]) = C34_Rank(fut[r]) + 1
              /\ fut[r].st = "ready"
              /\ \E c \in sent' \ sent :
                    /\ sent' = sent \cup {c}
                    /\ c.id = fut'[r].mid
                    /\ c.verb = C34_Verb(fut'[r])

C34_Idle ==
    Len(fut') = Len(fut) /\ (\A r \in 1..Len(fut) : fut'[r].stage = fut[r].stage)
    => sent' = sent

C34_Call ==
    Len(fut') = Len(fut) + 1
    => /\ C34_Rank(NewFut) <= 1
       /\ \A c \in sent' \ sent :
             /\ sent' = sent \cup {c}
             /\ c.id = NewFut.mid
             /\ c.verb = C34_Verb(NewFut)
       /\ \A r \in 1..Len(fut) : fut'[r].stage = fut[r].stage

C34_ReclaimFailed ==
    \A r \in 1..Len(fut) :
        /\ fut[r].api = "put_recover" /\ fut[r].stage = "reput"
        /\ fut[r].st = "ready" /\ fut'[r] # fut[r]
        => /\ fut'[r].st = "done"
           /\ sent' = sent
           /\ ~Adapt("put", fut[r].ev).ok => fut'[r].res = Adapt("put", fut[r].ev)

\* every call made has resolved
C34_Resolved == \A r \in 1..Len(fut) : fut[r].st = "done"

C34_Resolves == <>[]C34_Resolved

C34_BoundedRecovery ==
    /\ [](C34_Count)
    /\ [][C34_Advance /\ C34_Idle /\ C34_Call /\ C34_ReclaimFailed]_vars
    /\ C34_Resolves

\* one put_recover call has sent its three requests and resolved with the
\* failure of its reclaim put
C34_Witness ==
    /\ Len(fut) = 1
    /\ fut[1].api = "put_recover" /\ fut[1].stage = "reput" /\ fut[1].st = "done"
    /\ fut[1].by = fut[1].mid
    /\ fut[1].res = Err("MutationFailure", "LowBalance")
    /\ Cardinality(sent) = 3
    /\ {c.verb : c \in sent} = {"put", "get"}
====
